---- MODULE Spec2Model ----
(***************************************************************************)
(* x402 PolicyKit: the policy engine (rules.ts, evaluator.ts), the seller  *)
(* paywall middleware (middleware.ts, verification.ts, pricing.ts) and the *)
(* buyer's x402Fetch orchestrator with its in-memory spend ledger.         *)
(*                                                                         *)
(* USD amounts are integers (a count of a fixed fraction of a dollar);      *)
(* JavaScript floating point rounding of sums is not modelled.  An         *)
(* optional field is a sequence: <<>> is undefined, <<v>> is the value v.  *)
(***************************************************************************)
EXTENDS Integers, Sequences, FiniteSets, TLC

VARIABLES
    \* one call of evaluatePolicy: its arguments and its result
    evPolicy, evRequest, evContext, evFullTrace, evDecision,
    \* the seller: clock (seconds), the four optional settings of its
    \* PaywallConfig, the nonce store, nonces minted so far, the requests
    \* in flight, the protected handler's invocations, receipts dispatched
    \* through waitUntil and the rows of receipts inserted
    now, sellerOpts, kv, mintCount, sReq, handlerCalls, pendingReceipts,
    receipts,
    \* the buyer: the policy and the options (autoPay, maxRetries) its
    \* x402Fetch calls share, the calls, and the
    \* InMemorySpendStorage ledger of its one caller id (contexts entry,
    \* payments, decisions)
    cPolicy, cOpts, calls, ledgerCtx, ledgerPayments, ledgerDecisions,
    \* the wire encodings: a proof and a challenge to encode, their header
    \* forms once encoded, the 402 response as it reaches the buyer, and
    \* what the other side decodes
    codecIn, codecWire, codecDelivered, codecOut,
    \* one call of getPriceForEndpoint: its arguments and its result
    priceEndpoint, priceConfig, priceResult,
    \* a caller that evaluates one request after another against the
    \* context its allowed payments accumulate: the context and the log of
    \* prices, decisions and contexts left
    exContext, exLog,
    \* a policy evaluator asked for the remaining budget and for the
    \* maximum allowed price of the evaluation's policy, context and request
    evBudget, evMaxPrice,
    \* the buyer calling the seller: for every request of the seller, the
    \* call and the attempt (0 the initial request, k the k-th paid request)
    \* it carries
    served,
    \* an InMemorySpendStorage used by several callers: the contexts map,
    \* the payments and decisions logs, and the recordPayment calls that
    \* wait at their await
    stContexts, stPayments, stDecisions, stPending

evalVars == <<evPolicy, evRequest, evContext, evFullTrace, evDecision>>
sellerVars == <<now, sellerOpts, kv, mintCount, sReq, handlerCalls,
                pendingReceipts, receipts>>
clientVars == <<cPolicy, cOpts, calls, ledgerCtx, ledgerPayments, ledgerDecisions>>
codecVars == <<codecIn, codecWire, codecDelivered, codecOut>>
pricingVars == <<priceEndpoint, priceConfig, priceResult>>
exampleVars == <<exContext, exLog>>
budgetVars == <<evBudget, evMaxPrice>>
composedVars == <<served>>
storageVars == <<stContexts, stPayments, stDecisions, stPending>>
vars == <<evalVars, sellerVars, clientVars, codecVars, pricingVars,
          exampleVars, budgetVars, composedVars, storageVars>>

\* ------------------------------------------------------------------ bounds
MaxUsd == 1
MaxListLen == 1
MaxSellerRequests == 2
MaxTicks == 2
TickSeconds == 43200
MaxCalls == 2
MaxRetries == 2
MaxStoragePayments == 3
MaxStorageDecisions == 2

\* --------------------------------------------------------- JS value helpers
Undefined == <<>>
Some(v) == <<v>>
IsDefined(o) == o # <<>>
\* JavaScript truthiness of an optional number: undefined and 0 are falsy
Truthy(o) == o # <<>> /\ o[1] # 0
Max(a, b) == IF a >= b THEN a ELSE b

\* ------------------------------------------------------------ input domains
Usd == 0..MaxUsd
Prices == 0..(MaxUsd + 1)
ToolNames == {"extract"}
Endpoints == <<"/tool/extract", "/tool/quote">>
\* a host name is the sequence of its dot-separated labels
Hosts == {<<"api", "example", "com">>, <<"evil", "org">>}
DomainEntries == {<<"example", "com">>, <<"api", "example", "com">>}
SmallSubsets(S) == {x \in SUBSET S : Cardinality(x) <= MaxListLen}
EndpointCapChoices ==
    {[e \in {} |-> 0]} \cup {[e \in {Endpoints[1]} |-> c] : c \in {0, MaxUsd}}

Policies ==
    [enabled : BOOLEAN,
     dailyCapUsd : Usd,
     weeklyCapUsd : {Undefined} \cup {Some(c) : c \in Usd},
     perCallCapUsd : Usd,
     allowTools : SmallSubsets(ToolNames),
     denyTools : SmallSubsets(ToolNames),
     allowDomains : SmallSubsets(DomainEntries),
     denyDomains : SmallSubsets(DomainEntries),
     endpointCaps : EndpointCapChoices]

\* DEFAULT_POLICY and EMPTY_SPEND_CONTEXT of utils.ts, amounts at model scale
DEFAULT_POLICY ==
    [enabled |-> TRUE, dailyCapUsd |-> MaxUsd, weeklyCapUsd |-> Some(MaxUsd),
     perCallCapUsd |-> MaxUsd, allowTools |-> {}, denyTools |-> {},
     allowDomains |-> {}, denyDomains |-> {},
     endpointCaps |-> [e \in {} |-> 0]]
EMPTY_SPEND_CONTEXT ==
    [dailySpentUsd |-> 0, weeklySpentUsd |-> 0, dailyCallCount |-> 0]

SpendContexts ==
    {c \in [dailySpentUsd : Usd, weeklySpentUsd : Usd, dailyCallCount : {0}] :
        c.weeklySpentUsd >= c.dailySpentUsd}

\* ------------------------------------------------------------ policy engine
\* last path segment of the endpoint, as parsePaymentRequest extracts it
ToolOf(endpoint) ==
    IF endpoint = "/tool/extract" THEN "extract"
    ELSE IF endpoint = "/tool/quote" THEN "quote"
    ELSE "unknown"

parsePaymentRequest(endpoint, host, priceUsd) ==
    [endpoint |-> endpoint, tool |-> ToolOf(endpoint), domain |-> host,
     priceUsd |-> priceUsd]

\* request.domain === d || request.domain.endsWith(`.${d}`)
DomainMatches(domain, d) ==
    \/ domain = d
    \/ /\ Len(domain) > Len(d)
       /\ SubSeq(domain, Len(domain) - Len(d) + 1, Len(domain)) = d

policyEnabledRule(policy, request, context) ==
    [ruleId |-> "policy_enabled",
     ruleName |-> "Policy Enabled Check",
     passed |-> policy.enabled,
     reason |-> IF policy.enabled THEN <<"Policy is enabled">>
                ELSE <<"Policy is disabled - all payments blocked">>]

\* policy.endpointCaps?.[request.endpoint] ?? policy.perCallCapUsd
EffectivePerCallCap(policy, endpoint) ==
    IF endpoint \in DOMAIN policy.endpointCaps
    THEN policy.endpointCaps[endpoint]
    ELSE policy.perCallCapUsd

\* perCallCapRule without its comparison: any price passes
perCallCapRule_AnyPricePasses(policy, request, context) ==
    LET cap == EffectivePerCallCap(policy, request.endpoint)
    IN [ruleId |-> "per_call_cap",
        ruleName |-> "Per-Call Cap",
        passed |-> TRUE,
        reason |-> <<"Price within per-call cap", request.priceUsd, cap>>]

perCallCapRule(policy, request, context) ==
    LET cap == EffectivePerCallCap(policy, request.endpoint)
        passed == request.priceUsd <= cap
    IN [ruleId |-> "per_call_cap",
        ruleName |-> "Per-Call Cap",
        passed |-> passed,
        reason |-> IF passed
                   THEN <<"Price within per-call cap", request.priceUsd, cap>>
                   ELSE <<"Price exceeds per-call cap", request.priceUsd, cap>>]

\* dailyCapRule without its comparison: the rule passes whatever was spent
dailyCapRule_AlwaysPasses(policy, request, context) ==
    LET projectedSpend == context.dailySpentUsd + request.priceUsd
    IN [ruleId |-> "daily_cap",
        ruleName |-> "Daily Cap",
        passed |-> TRUE,
        reason |-> <<"Projected daily spend within cap", projectedSpend,
                     policy.dailyCapUsd>>]

dailyCapRule(policy, request, context) ==
    LET projectedSpend == context.dailySpentUsd + request.priceUsd
        passed == projectedSpend <= policy.dailyCapUsd
    IN [ruleId |-> "daily_cap",
        ruleName |-> "Daily Cap",
        passed |-> passed,
        reason |-> IF passed
                   THEN <<"Projected daily spend within cap", projectedSpend,
                          policy.dailyCapUsd>>
                   ELSE <<"Projected daily spend exceeds cap", projectedSpend,
                          policy.dailyCapUsd>>]

weeklyCapRule(policy, request, context) ==
    IF ~Truthy(policy.weeklyCapUsd)
    THEN [ruleId |-> "weekly_cap",
          ruleName |-> "Weekly Cap",
          passed |-> TRUE,
          reason |-> <<"No weekly cap configured">>]
    ELSE LET projectedSpend == context.weeklySpentUsd + request.priceUsd
             passed == projectedSpend <= policy.weeklyCapUsd[1]
         IN [ruleId |-> "weekly_cap",
             ruleName |-> "Weekly Cap",
             passed |-> passed,
             reason |-> IF passed
                        THEN <<"Projected weekly spend within cap",
                               projectedSpend, policy.weeklyCapUsd[1]>>
                        ELSE <<"Projected weekly spend exceeds cap",
                               projectedSpend, policy.weeklyCapUsd[1]>>]

toolAllowlistRule(policy, request, context) ==
    IF policy.allowTools = {}
    THEN [ruleId |-> "tool_allowlist",
          ruleName |-> "Tool Allowlist",
          passed |-> TRUE,
          reason |-> <<"No tool allowlist configured - all tools allowed">>]
    ELSE LET passed == request.tool \in policy.allowTools
         IN [ruleId |-> "tool_allowlist",
             ruleName |-> "Tool Allowlist",
             passed |-> passed,
             reason |-> IF passed
                        THEN <<"Tool is in allowlist", request.tool>>
                        ELSE <<"Tool is not in allowlist", request.tool,
                               policy.allowTools>>]

toolDenylistRule(policy, request, context) ==
    IF policy.denyTools = {}
    THEN [ruleId |-> "tool_denylist",
          ruleName |-> "Tool Denylist",
          passed |-> TRUE,
          reason |-> <<"No tool denylist configured">>]
    ELSE LET passed == ~(request.tool \in policy.denyTools)
         IN [ruleId |-> "tool_denylist",
             ruleName |-> "Tool Denylist",
             passed |-> passed,
             reason |-> IF passed
                        THEN <<"Tool is not in denylist", request.tool>>
                        ELSE <<"Tool is blocked by denylist", request.tool>>]

domainAllowlistRule(policy, request, context) ==
    IF policy.allowDomains = {}
    THEN [ruleId |-> "domain_allowlist",
          ruleName |-> "Domain Allowlist",
          passed |-> TRUE,
          reason |-> <<"No domain allowlist configured - all domains allowed">>]
    ELSE LET passed == \E d \in policy.allowDomains :
                           DomainMatches(request.domain, d)
         IN [ruleId |-> "domain_allowlist",
             ruleName |-> "Domain Allowlist",
             passed |-> passed,
             reason |-> IF passed
                        THEN <<"Domain is in allowlist", request.domain>>
                        ELSE <<"Domain is not in allowlist", request.domain,
                               policy.allowDomains>>]

\* domainDenylistRule that lets a domain of the allowlist through
domainDenylistRule_AllowlistOverrides(policy, request, context) ==
    LET isDenied == \E d \in policy.denyDomains :
                        DomainMatches(request.domain, d)
        isAllowed == \E d \in policy.allowDomains :
                         DomainMatches(request.domain, d)
        passed == ~isDenied \/ isAllowed
    IN [ruleId |-> "domain_denylist",
        ruleName |-> "Domain Denylist",
        passed |-> passed,
        reason |-> IF passed
                   THEN <<"Domain is not in denylist", request.domain>>
                   ELSE <<"Domain is blocked by denylist", request.domain>>]

domainDenylistRule(policy, request, context) ==
    IF policy.denyDomains = {}
    THEN [ruleId |-> "domain_denylist",
          ruleName |-> "Domain Denylist",
          passed |-> TRUE,
          reason |-> <<"No domain denylist configured">>]
    ELSE LET isDenied == \E d \in policy.denyDomains :
                             DomainMatches(request.domain, d)
             passed == ~isDenied
         IN [ruleId |-> "domain_denylist",
             ruleName |-> "Domain Denylist",
             passed |-> passed,
             reason |-> IF passed
                        THEN <<"Domain is not in denylist", request.domain>>
                        ELSE <<"Domain is blocked by denylist", request.domain>>]

\* the rule functions are named by their position in ALL_RULES
ALL_RULES ==
    <<"policyEnabledRule", "toolDenylistRule", "domainDenylistRule",
      "toolAllowlistRule", "domainAllowlistRule", "perCallCapRule",
      "dailyCapRule", "weeklyCapRule">>

ApplyRule(rule, policy, request, context) ==
    CASE rule = "policyEnabledRule" -> policyEnabledRule(policy, request, context)
      [] rule = "toolDenylistRule" -> toolDenylistRule(policy, request, context)
      [] rule = "domainDenylistRule" -> domainDenylistRule(policy, request, context)
      [] rule = "toolAllowlistRule" -> toolAllowlistRule(policy, request, context)
      [] rule = "domainAllowlistRule" -> domainAllowlistRule(policy, request, context)
      [] rule = "perCallCapRule" -> perCallCapRule(policy, request, context)
      [] rule = "dailyCapRule" -> dailyCapRule(policy, request, context)
      [] rule = "weeklyCapRule" -> weeklyCapRule(policy, request, context)

\* the for-loop of evaluatePolicy from rule i on; failedRule is optional
RECURSIVE RunRules(_, _, _, _, _, _, _, _, _)
RunRules(rules, i, policy, request, context, fullTrace, trace, allow, failedRule) ==
    IF i > Len(rules)
    THEN [trace |-> trace, allow |-> allow, failedRule |-> failedRule]
    ELSE LET result == ApplyRule(rules[i], policy, request, context)
             trace2 == Append(trace, result)
         IN IF ~result.passed
            THEN LET failed2 == IF failedRule = <<>> THEN <<result>>
                                ELSE failedRule
                 IN IF ~fullTrace
                    THEN [trace |-> trace2, allow |-> FALSE,
                          failedRule |-> failed2]
                    ELSE RunRules(rules, i + 1, policy, request, context,
                                  fullTrace, trace2, FALSE, failed2)
            ELSE RunRules(rules, i + 1, policy, request, context,
                          fullTrace, trace2, allow, failedRule)

\* lines 48-66 of evaluatePolicy: the decision built from the loop's result
buildDecision(policy, request, context, run) ==
    LET projectedSpend == context.dailySpentUsd + request.priceUsd
    IN [allow |-> run.allow,
        reason |-> IF run.failedRule = <<>> THEN <<"All policy rules passed">>
                   ELSE run.failedRule[1].reason,
        ruleId |-> IF run.failedRule = <<>> THEN "all_passed"
                   ELSE run.failedRule[1].ruleId,
        projectedSpend |-> projectedSpend,
        currentDailySpend |-> context.dailySpentUsd,
        currentWeeklySpend |-> context.weeklySpentUsd,
        remainingDailyBudget |-> Max(0, policy.dailyCapUsd - projectedSpend),
        remainingWeeklyBudget |->
            IF Truthy(policy.weeklyCapUsd)
            THEN Some(Max(0, policy.weeklyCapUsd[1]
                             - (context.weeklySpentUsd + request.priceUsd)))
            ELSE Undefined,
        trace |-> run.trace]

\* evaluatePolicy that keeps the last failed rule instead of the first
evaluatePolicy_ReportsLastFailure(policy, request, context, fullTrace) ==
    LET run == RunRules(ALL_RULES, 1, policy, request, context, fullTrace,
                        <<>>, TRUE, <<>>)
        failed == {i \in 1..Len(run.trace) : ~run.trace[i].passed}
        last == CHOOSE i \in failed : \A j \in failed : j <= i
    IN buildDecision(policy, request, context,
                     [run EXCEPT !.failedRule =
                          IF failed = {} THEN <<>> ELSE <<run.trace[last]>>])

\* evaluatePolicy without the break: every rule runs in either mode
evaluatePolicy_NeverStopsEarly(policy, request, context, fullTrace) ==
    buildDecision(policy, request, context,
                  RunRules(ALL_RULES, 1, policy, request, context, TRUE,
                           <<>>, TRUE, <<>>))

\* evaluatePolicy that breaks at the first failed rule in either mode
evaluatePolicy_AlwaysStopsEarly(policy, request, context, fullTrace) ==
    buildDecision(policy, request, context,
                  RunRules(ALL_RULES, 1, policy, request, context, FALSE,
                           <<>>, TRUE, <<>>))

\* evaluatePolicy that remembers: it denies once the ledger holds a decision
evaluatePolicy_DependsOnHistory(policy, request, context, fullTrace) ==
    LET run == RunRules(ALL_RULES, 1, policy, request, context, fullTrace,
                        <<>>, TRUE, <<>>)
    IN buildDecision(policy, request, context,
                     [run EXCEPT !.allow = run.allow /\ ledgerDecisions = <<>>])

\* evaluatePolicy whose allow is the verdict of the last rule it ran
evaluatePolicy_AllowFromLastRule(policy, request, context, fullTrace) ==
    LET run == RunRules(ALL_RULES, 1, policy, request, context, fullTrace,
                        <<>>, TRUE, <<>>)
    IN buildDecision(policy, request, context,
                     [run EXCEPT !.allow = run.trace[Len(run.trace)].passed])

evaluatePolicy(policy, request, context, fullTrace) ==
    buildDecision(policy, request, context,
                  RunRules(ALL_RULES, 1, policy, request, context, fullTrace,
                           <<>>, TRUE, <<>>))

\* createPolicyEvaluator(defaultPolicy, options): evaluate passes the
\* evaluator's options on, isAllowed overrides fullTrace with false
evaluate(request, context, policy, options) ==
    evaluatePolicy(policy, request, context, options.fullTrace)

isAllowed(request, context, policy, options) ==
    evaluatePolicy(policy, request, context, FALSE).allow

\* getRemainingBudget: weekly is optional
getRemainingBudget(context, policy) ==
    [daily |-> Max(0, policy.dailyCapUsd - context.dailySpentUsd),
     weekly |-> IF Truthy(policy.weeklyCapUsd)
                THEN Some(Max(0, policy.weeklyCapUsd[1]
                                 - context.weeklySpentUsd))
                ELSE Undefined]

Min(a, b) == IF a <= b THEN a ELSE b

\* getMaxAllowedPrice; weeklyRemaining <<>> stands for Infinity
getMaxAllowedPrice(request, context, policy) ==
    LET perCallCap == EffectivePerCallCap(policy, request.endpoint)
        dailyRemaining == policy.dailyCapUsd - context.dailySpentUsd
        weeklyRemaining == IF Truthy(policy.weeklyCapUsd)
                           THEN Some(policy.weeklyCapUsd[1]
                                     - context.weeklySpentUsd)
                           ELSE <<>>
        least == IF weeklyRemaining = <<>>
                 THEN Min(perCallCap, dailyRemaining)
                 ELSE Min(Min(perCallCap, dailyRemaining), weeklyRemaining[1])
    IN Max(0, least)

\* ------------------------------------------------------- seller: pricing
Decimals == 6
\* model USD amounts count half-millionths of a dollar, so that the
\* conversion to base units rounds
UsdUnitsPerDollar == 2 * (10 ^ Decimals)

\* BigInt(Math.round(usd * 10 ** decimals)); Math.round rounds halves up
usdToToken(usd) ==
    (2 * usd * (10 ^ Decimals) + UsdUnitsPerDollar) \div (2 * UsdUnitsPerDollar)

\* the characters of the paths and patterns the model uses
Chars(str) ==
    CASE str = "/tool/extract" ->
           <<"/", "t", "o", "o", "l", "/", "e", "x", "t", "r", "a", "c", "t">>
      [] str = "/tool/quote" ->
           <<"/", "t", "o", "o", "l", "/", "q", "u", "o", "t", "e">>
      [] str = "/tool/*" -> <<"/", "t", "o", "o", "l", "/", "*">>
      [] str = "/health" -> <<"/", "h", "e", "a", "l", "t", "h">>
      [] str = "/tool/**" -> <<"/", "t", "o", "o", "l", "/", "*", "*">>
      [] str = "/tool/a/b" -> <<"/", "t", "o", "o", "l", "/", "a", "/", "b">>
      [] str = "/feed.xml" -> <<"/", "f", "e", "e", "d", ".", "x", "m", "l">>
      [] str = "/feedAxml" -> <<"/", "f", "e", "e", "d", "A", "x", "m", "l">>

\* pattern.replace(/\*\*/g, DOUBLESTAR).replace(/\*/g, '[^/]*')
\*        .replace(DOUBLESTAR, '.*'): the regular expression as tokens
RECURSIVE RegexTokens(_)
RegexTokens(pat) ==
    IF pat = <<>> THEN <<>>
    ELSE IF Len(pat) >= 2 /\ pat[1] = "*" /\ pat[2] = "*"
         THEN <<"DOUBLESTAR">> \o RegexTokens(SubSeq(pat, 3, Len(pat)))
    ELSE IF pat[1] = "*"
         THEN <<"STAR">> \o RegexTokens(Tail(pat))
    ELSE <<pat[1]>> \o RegexTokens(Tail(pat))

\* new RegExp(`^${regexPattern}$`).test(path); the pattern's other
\* characters reach the regular expression unescaped, so that a dot stands
\* for any character
RECURSIVE RegexTest(_, _)
RegexTest(tokens, path) ==
    IF tokens = <<>> THEN path = <<>>
    ELSE IF tokens[1] = "DOUBLESTAR"
         THEN \/ RegexTest(Tail(tokens), path)
              \/ path # <<>> /\ RegexTest(tokens, Tail(path))
    ELSE IF tokens[1] = "STAR"
         THEN \/ RegexTest(Tail(tokens), path)
              \/ path # <<>> /\ path[1] # "/" /\ RegexTest(tokens, Tail(path))
    ELSE IF tokens[1] = "."
         THEN path # <<>> /\ RegexTest(Tail(tokens), Tail(path))
    ELSE path # <<>> /\ path[1] = tokens[1] /\ RegexTest(Tail(tokens), Tail(path))

matchPattern(path, pattern) == RegexTest(RegexTokens(Chars(pattern)), Chars(path))

UsdcToken == [address |-> "0x036cbd", upperCase |-> FALSE]
toLowerCase(token) == [token EXCEPT !.upperCase = FALSE]

\* the seller's configuration apart from the four options drawn at Init;
\* pricing lists Object.entries(config.pricing) in insertion order
PaywallConfig ==
    [sellerAddress |-> "0xseller",
     defaultToken |-> UsdcToken,
     defaultChainId |-> 84532,
     pricing |-> <<[pattern |-> "/tool/extract", priceUsd |-> 3],
                   [pattern |-> "/tool/*", priceUsd |-> 1]>>,
     defaultPriceUsd |-> Undefined]

normalizePricing(priceUsd, config) ==
    [priceUsd |-> priceUsd,
     priceToken |-> usdToToken(priceUsd),
     token |-> config.defaultToken,
     chainId |-> config.defaultChainId]

\* getPriceForEndpoint that prices what the configuration does not: at 0
getPriceForEndpoint_UnpricedCostsZero(endpoint, config) ==
    LET matching == {i \in DOMAIN config.pricing :
                        \/ config.pricing[i].pattern = endpoint
                        \/ matchPattern(endpoint, config.pricing[i].pattern)}
        first == CHOOSE i \in matching : \A j \in matching : i <= j
    IN IF matching # {}
       THEN Some(normalizePricing(config.pricing[first].priceUsd, config))
       ELSE Some(normalizePricing(0, config))

\* getPriceForEndpoint that finds no price for any endpoint
getPriceForEndpoint_NothingPriced(endpoint, config) == <<>>

\* the result is optional: <<>> is null
getPriceForEndpoint(endpoint, config) ==
    LET exact == {i \in DOMAIN config.pricing :
                     config.pricing[i].pattern = endpoint}
        matching == {i \in DOMAIN config.pricing :
                        matchPattern(endpoint, config.pricing[i].pattern)}
        first(S) == CHOOSE i \in S : \A j \in S : i <= j
    IN IF exact # {}
       THEN Some(normalizePricing(config.pricing[first(exact)].priceUsd, config))
       ELSE IF matching # {}
       THEN Some(normalizePricing(config.pricing[first(matching)].priceUsd,
                                  config))
       ELSE IF config.defaultPriceUsd # Undefined
       THEN Some(normalizePricing(config.defaultPriceUsd[1], config))
       ELSE <<>>

\* ------------------------------------------------- seller: verification
\* parsePaymentHeader without the try/catch around atob and JSON.parse
parsePaymentHeader_AcceptsUndecodable(header) ==
    IF header.sig = Undefined \/ header.payer = Undefined
       \/ header.nonce = Undefined
    THEN <<>>
    ELSE Some([signature |-> header.sig[1],
               payer |-> header.payer[1],
               nonce |-> header.nonce[1],
               expiry |-> header.expiry,
               amount |-> header.amount,
               token |-> header.token,
               chainId |-> header.chainId])

\* parsePaymentHeader: <<>> is null; a header is undecodable or a payload.
\* Only sig, payer and nonce are required: payload.expiry, payload.amount
\* and payload.token are copied as they are, <<>> when the payload lacks
\* them
parsePaymentHeader(header) ==
    IF ~header.decodable THEN <<>>
    ELSE IF header.sig = Undefined \/ header.payer = Undefined
            \/ header.nonce = Undefined
    THEN <<>>
    ELSE Some([signature |-> header.sig[1],
               payer |-> header.payer[1],
               nonce |-> header.nonce[1],
               expiry |-> header.expiry,
               amount |-> header.amount,
               token |-> header.token,
               chainId |-> header.chainId])

verifySignature(payment) ==
    IF payment.signature.length < 130 THEN FALSE
    ELSE IF ~payment.signature.has0x THEN FALSE
    ELSE TRUE

\* the TypeError thrown out of verifyPayment by payment.token.toLowerCase()
\* or BigInt(payment.amount) on a payload that lacks the field
Threw == [valid |-> FALSE, reason |-> "TypeError"]

\* verifyPayment without the expiry check
verifyPayment_IgnoresExpiry(payment, pricing, verifySignatures, nowSeconds) ==
    IF ~IsDefined(payment.token)
    THEN Threw
    ELSE IF toLowerCase(payment.token[1]) # toLowerCase(pricing.token)
    THEN [valid |-> FALSE, reason |-> "Token mismatch"]
    ELSE IF payment.chainId # pricing.chainId
    THEN [valid |-> FALSE, reason |-> "Chain ID mismatch"]
    ELSE IF ~IsDefined(payment.amount)
    THEN Threw
    ELSE IF payment.amount[1] < pricing.priceToken
    THEN [valid |-> FALSE, reason |-> "Insufficient payment amount"]
    ELSE IF verifySignatures /\ ~verifySignature(payment)
    THEN [valid |-> FALSE, reason |-> "Invalid signature"]
    ELSE [valid |-> TRUE, reason |-> ""]

\* payment.expiry < now is false in JavaScript when expiry is undefined
verifyPayment(payment, pricing, verifySignatures, nowSeconds) ==
    IF IsDefined(payment.expiry) /\ payment.expiry[1] < nowSeconds
    THEN [valid |-> FALSE, reason |-> "Payment has expired"]
    ELSE IF ~IsDefined(payment.token)
    THEN Threw
    ELSE IF toLowerCase(payment.token[1]) # toLowerCase(pricing.token)
    THEN [valid |-> FALSE, reason |-> "Token mismatch"]
    ELSE IF payment.chainId # pricing.chainId
    THEN [valid |-> FALSE, reason |-> "Chain ID mismatch"]
    ELSE IF ~IsDefined(payment.amount)
    THEN Threw
    ELSE IF payment.amount[1] < pricing.priceToken
    THEN [valid |-> FALSE, reason |-> "Insufficient payment amount"]
    ELSE IF verifySignatures /\ ~verifySignature(payment)
    THEN [valid |-> FALSE, reason |-> "Invalid signature"]
    ELSE [valid |-> TRUE, reason |-> ""]

\* ---------------------------------------------------- seller: middleware
ExpiryDuration == 300
NonceTtl == 86400

SellerRequestIds == 1..MaxSellerRequests
SellerEndpoints == {"/tool/extract", "/health"}

SigGood == [has0x |-> TRUE, length |-> 132]
SigShort == [has0x |-> TRUE, length |-> 66]
SigNoPrefix == [has0x |-> FALSE, length |-> 130]
OtherToken == [address |-> "0xdead", upperCase |-> FALSE]

\* a proof header as a requester may send it: nonce 0 is a nonce the seller
\* never minted, 1..minted are the nonces of its challenges so far
ProofHeader(n, e, a) ==
    [decodable |-> TRUE, sig |-> Some(SigGood), payer |-> Some("0xbuyer"),
     nonce |-> Some(n), expiry |-> Some(e), amount |-> Some(a),
     token |-> Some(UsdcToken),
     chainId |-> 84532]

ExpiryChoices == {ExpiryDuration, 2 * NonceTtl}

HeaderChoices(minted) ==
    LET far == 2 * NonceTtl
        ref == ProofHeader(0, far, 2)
    IN {<<>>}
       \cup {Some(ProofHeader(n, e, a)) :
                n \in 0..minted, e \in ExpiryChoices, a \in {1, 2}}
       \cup {Some(h) : h \in
               {[ref EXCEPT !.decodable = FALSE],
                [ref EXCEPT !.sig = Undefined],
                [ref EXCEPT !.payer = Undefined],
                [ref EXCEPT !.nonce = Undefined],
                [ref EXCEPT !.expiry = Undefined],
                [ref EXCEPT !.sig = Some(SigShort)],
                [ref EXCEPT !.sig = Some(SigNoPrefix)],
                [ref EXCEPT !.token = Undefined],
                [ref EXCEPT !.amount = Undefined],
                [ref EXCEPT !.token = Some(OtherToken)],
                [ref EXCEPT !.token =
                     Some([UsdcToken EXCEPT !.upperCase = TRUE])],
                [ref EXCEPT !.chainId = 1]}}

\* the optional settings of PaywallConfig: replay checking on, off for want
\* of a nonce store, or off; each with and without signature checks and db
SellerOptions ==
    {[checkReplay |-> TRUE, kv |-> TRUE, verifySignatures |-> FALSE,
      db |-> TRUE],
     [checkReplay |-> TRUE, kv |-> TRUE, verifySignatures |-> TRUE,
      db |-> FALSE],
     [checkReplay |-> TRUE, kv |-> FALSE, verifySignatures |-> FALSE,
      db |-> FALSE],
     [checkReplay |-> FALSE, kv |-> TRUE, verifySignatures |-> TRUE,
      db |-> TRUE]}

IdleRequest ==
    [pc |-> "idle", endpoint |-> "", header |-> <<>>, nonce |-> 0,
     expiry |-> 0, payment |-> <<>>, verifiedAt |-> 0, status |-> 0,
     error |-> "", receiptId |-> 0, handlerStatus |-> 0, handlerBody |-> "",
     body |-> "", receiptIdHeader |-> <<>>, paymentResponse |-> <<>>]

\* the body the protected handler answers with
HandlerBody(status) == IF status = 200 THEN "result" ELSE "failure"

\* config.kv.get(key): null once the entry's expirationTtl has run out
KvGet(key) == IF kv[key] # <<>> /\ now < kv[key][1] THEN Some("1") ELSE <<>>

InitSeller ==
    /\ now = 0
    /\ sellerOpts \in SellerOptions
    /\ kv = [n \in 0..MaxSellerRequests |-> <<>>]
    /\ mintCount = 0
    /\ sReq = [r \in SellerRequestIds |-> IdleRequest]
    /\ handlerCalls = <<>>
    /\ pendingReceipts = {}
    /\ receipts = <<>>

SellerIdle ==
    /\ sellerOpts = CHOOSE o \in SellerOptions : TRUE
    /\ InitSeller

\* what no step of the seller touches
OutsideSeller ==
    UNCHANGED <<evalVars, clientVars, codecVars, pricingVars, exampleVars,
               budgetVars, composedVars, storageVars>>

\* withX402Paywall from the arrival of the request to its first await on
\* the nonce store or the handler (lines 45-101), for a request to the path
\* endpoint carrying the optional proof header
SellerAccepts(r, endpoint, header) ==
    LET pricing == getPriceForEndpoint(endpoint, PaywallConfig)
        nonce == mintCount + 1
        expiry == now + ExpiryDuration
        payment == IF header = <<>> THEN <<>>
                   ELSE parsePaymentHeader(header[1])
        req == [IdleRequest EXCEPT !.endpoint = endpoint,
                                   !.header = header]
    IN IF pricing = <<>>
       THEN \* free endpoint: the handler answers with paid:false
            /\ \E status \in {200, 500} :
                 sReq' = [sReq EXCEPT ![r] =
                            [req EXCEPT !.pc = "done", !.status = status,
                                !.handlerStatus = status,
                                !.handlerBody = HandlerBody(status),
                                !.body = HandlerBody(status)]]
            /\ handlerCalls' = Append(handlerCalls,
                   [req |-> r, paid |-> FALSE, nonce |-> 0])
            /\ UNCHANGED mintCount
       ELSE /\ mintCount' = nonce
            /\ UNCHANGED handlerCalls
            /\ LET priced == [req EXCEPT !.nonce = nonce,
                                         !.expiry = expiry]
               IN IF header = <<>>
                  THEN sReq' = [sReq EXCEPT ![r] =
                           [priced EXCEPT !.pc = "done", !.status = 402,
                                          !.error = "Payment Required"]]
                  ELSE IF payment = <<>>
                  THEN sReq' = [sReq EXCEPT ![r] =
                           [priced EXCEPT !.pc = "done", !.status = 400,
                                !.error = "Invalid payment header format"]]
                  ELSE LET verification ==
                               verifyPayment(payment[1], pricing[1],
                                   sellerOpts.verifySignatures, now)
                           verified == [priced EXCEPT !.payment = payment,
                                                      !.verifiedAt = now]
                       IN IF verification = Threw
                          THEN \* no response: the exception leaves
                               \* the middleware
                               sReq' = [sReq EXCEPT ![r] =
                                   [priced EXCEPT !.pc = "done",
                                        !.payment = payment,
                                        !.error = "TypeError"]]
                          ELSE IF ~verification.valid
                          THEN sReq' = [sReq EXCEPT ![r] =
                                   [verified EXCEPT !.pc = "done",
                                        !.status = 402,
                                        !.error = verification.reason]]
                          ELSE IF sellerOpts.checkReplay /\ sellerOpts.kv
                          THEN sReq' = [sReq EXCEPT ![r] =
                                   [verified EXCEPT !.pc = "kv_get"]]
                          ELSE sReq' = [sReq EXCEPT ![r] =
                                   [verified EXCEPT !.pc = "handler"]]

\* a request arrives: any known path, with or without a proof header
SellerStart(r) ==
    /\ sReq[r].pc = "idle"
    /\ IF r = 1 THEN TRUE ELSE sReq[r - 1].pc # "idle"
    /\ \E endpoint \in SellerEndpoints, header \in HeaderChoices(mintCount) :
         SellerAccepts(r, endpoint, header)
    /\ UNCHANGED <<now, sellerOpts, kv, pendingReceipts, receipts>>
    /\ OutsideSeller

\* await config.kv.get(`nonce:${payment.nonce}`) and the test of its result
SellerKvGet(r) ==
    /\ sReq[r].pc = "kv_get"
    /\ IF KvGet(sReq[r].payment[1].nonce) # <<>>
       THEN sReq' = [sReq EXCEPT ![r].pc = "done", ![r].status = 400,
                                 ![r].error = "Payment nonce already used"]
       ELSE sReq' = [sReq EXCEPT ![r].pc = "kv_put"]
    /\ UNCHANGED <<now, sellerOpts, kv, mintCount, handlerCalls,
                   pendingReceipts, receipts>>
    /\ OutsideSeller

\* the replay block without its kv.put: the nonce is checked, never marked
SellerKvPut_MarksNothing(r) ==
    /\ sReq[r].pc = "kv_put"
    /\ sReq' = [sReq EXCEPT ![r].pc = "handler"]
    /\ UNCHANGED <<now, sellerOpts, kv, mintCount, handlerCalls,
                   pendingReceipts, receipts>>
    /\ OutsideSeller

\* await config.kv.put(`nonce:${payment.nonce}`, '1', {expirationTtl: 86400})
SellerKvPut(r) ==
    /\ sReq[r].pc = "kv_put"
    /\ kv' = [kv EXCEPT ![sReq[r].payment[1].nonce] = Some(now + NonceTtl)]
    /\ sReq' = [sReq EXCEPT ![r].pc = "handler"]
    /\ UNCHANGED <<now, sellerOpts, mintCount, handlerCalls, pendingReceipts,
                   receipts>>
    /\ OutsideSeller

\* lines 115-134: the request is hashed and the handler invoked with paid:true
SellerInvokeHandler(r) ==
    /\ sReq[r].pc = "handler"
    /\ handlerCalls' = Append(handlerCalls,
           [req |-> r, paid |-> TRUE, nonce |-> sReq[r].payment[1].nonce])
    /\ sReq' = [sReq EXCEPT ![r].pc = "handler_running", ![r].receiptId = r]
    /\ UNCHANGED <<now, sellerOpts, kv, mintCount, pendingReceipts, receipts>>
    /\ OutsideSeller

\* lines 134-185: the handler returns (or throws); with a receipt store the
\* receipt is built and handed to ctx.waitUntil, then the response is
\* returned with the handler's status and body and the receipt headers.
\* Building the receipt evaluates new Date(payment.expiry * 1000)
\* .toISOString() (line 156), which throws a RangeError for a proof without
\* expiry: the request then ends without a response and without a receipt
SellerRespond(r) ==
    /\ sReq[r].pc = "handler_running"
    /\ \E outcome \in {200, 500, -1} :
         LET payment == sReq[r].payment[1]
             returned == [sReq[r] EXCEPT !.handlerStatus = outcome,
                                         !.handlerBody = HandlerBody(outcome)]
         IN IF outcome = -1
            THEN /\ sReq' = [sReq EXCEPT ![r].pc = "done",
                                         ![r].error = "handler threw"]
                 /\ UNCHANGED pendingReceipts
            ELSE IF sellerOpts.db /\ ~IsDefined(payment.expiry)
            THEN /\ sReq' = [sReq EXCEPT ![r] =
                               [returned EXCEPT !.pc = "done",
                                                !.error = "Invalid time value"]]
                 /\ UNCHANGED pendingReceipts
            ELSE /\ sReq' = [sReq EXCEPT ![r] =
                               [returned EXCEPT
                                   !.pc = "done",
                                   !.status = returned.handlerStatus,
                                   !.body = returned.handlerBody,
                                   !.receiptIdHeader = Some(sReq[r].receiptId),
                                   !.paymentResponse =
                                       Some([success |-> TRUE,
                                             receiptId |-> sReq[r].receiptId,
                                             network |->
                                                 [namespace |-> "eip155",
                                                  reference |->
                                                      payment.chainId]])]]
                 /\ pendingReceipts' =
                       IF sellerOpts.db
                       THEN pendingReceipts \cup
                              {[id |-> sReq[r].receiptId,
                                callId |-> sReq[r].nonce,
                                nonce |-> payment.nonce,
                                buyer |-> payment.payer,
                                verified |-> TRUE]}
                       ELSE pendingReceipts
    /\ UNCHANGED <<now, sellerOpts, kv, mintCount, handlerCalls, receipts>>
    /\ OutsideSeller

\* storeReceipt: the INSERT of a receipt dispatched through waitUntil adds a
\* row to the receipts table
SellerStoreReceipt ==
    /\ \E rc \in pendingReceipts :
         /\ pendingReceipts' = pendingReceipts \ {rc}
         /\ receipts' = Append(receipts, rc)
    /\ UNCHANGED <<now, sellerOpts, kv, mintCount, sReq, handlerCalls>>
    /\ OutsideSeller

\* time passes
Tick ==
    /\ now < MaxTicks * TickSeconds
    /\ now' = now + TickSeconds
    /\ UNCHANGED <<sellerOpts, kv, mintCount, sReq, handlerCalls,
                   pendingReceipts, receipts>>
    /\ OutsideSeller

NoRequestInFlight == \A r \in SellerRequestIds : sReq[r].pc \in {"idle", "done"}

NextSeller ==
    \/ \E r \in SellerRequestIds : SellerStart(r)
    \/ \E r \in SellerRequestIds : SellerKvGet(r)
    \/ \E r \in SellerRequestIds : SellerKvPut(r)
    \/ \E r \in SellerRequestIds : SellerInvokeHandler(r)
    \/ \E r \in SellerRequestIds : SellerRespond(r)
    \/ SellerStoreReceipt
    \/ Tick

\* requests handled one after another
SellerStartSeq(r) == NoRequestInFlight /\ SellerStart(r)

NextSellerSeq ==
    \/ \E r \in SellerRequestIds : SellerStartSeq(r)
    \/ \E r \in SellerRequestIds : SellerKvGet(r)
    \/ \E r \in SellerRequestIds : SellerKvPut(r)
    \/ \E r \in SellerRequestIds : SellerInvokeHandler(r)
    \/ \E r \in SellerRequestIds : SellerRespond(r)
    \/ SellerStoreReceipt
    \/ Tick

\* ------------------------------------------------- buyer: payment codec
\* a CAIP-2 network identifier is its namespace and its reference
caip2ToChainId(network) ==
    IF network.namespace = "eip155" THEN network.reference ELSE 0

\* parse402Headers: <<>> is null.  A response carries an optional
\* PAYMENT-REQUIRED header (decodable or not) and optional legacy headers;
\* nonce 0 stands for a nonce generateNonce() makes up on the buyer's side.
\* Of the decoded object only network is needed for the try block to
\* complete (caip2ToChainId calls network.match): maxAmountRequired, asset
\* and payTo are copied as they are, <<>> when the object lacks them
parse402Headers(response) ==
    LET pr == response.paymentRequired
        lg == response.legacy
    IN IF pr # <<>> /\ pr[1].decodable /\ pr[1].network # <<>>
       THEN LET decoded == pr[1]
                extra == decoded.extra
                opt(field) == IF extra = <<>> THEN <<>> ELSE extra[1][field]
            IN Some([price |-> decoded.maxAmountRequired,
                     priceUsd |-> IF opt("priceUsd") = <<>> THEN 0
                                  ELSE opt("priceUsd")[1],
                     token |-> decoded.asset,
                     seller |-> decoded.payTo,
                     chainId |-> caip2ToChainId(decoded.network[1]),
                     expiry |-> IF opt("expiry") = <<>>
                                THEN now + (IF decoded.maxTimeoutSeconds = 0
                                            THEN 300
                                            ELSE decoded.maxTimeoutSeconds)
                                ELSE opt("expiry")[1],
                     nonce |-> IF opt("nonce") = <<>> THEN 0
                               ELSE opt("nonce")[1]])
       ELSE IF lg = <<>> THEN <<>>
       ELSE LET chainId == IF lg[1].chainId # <<>> THEN lg[1].chainId
                           ELSE lg[1].network
            IN IF \/ lg[1].price = <<>> \/ lg[1].token = <<>>
                  \/ lg[1].seller = <<>> \/ chainId = <<>>
                  \/ lg[1].expiry = <<>> \/ lg[1].nonce = <<>>
               THEN <<>>
               ELSE Some([price |-> lg[1].price,
                          priceUsd |-> IF lg[1].priceUsd = <<>> THEN 0
                                       ELSE lg[1].priceUsd[1],
                          token |-> lg[1].token,
                          seller |-> lg[1].seller,
                          chainId |-> IF chainId[1].namespace = "eip155"
                                      THEN caip2ToChainId(chainId[1])
                                      ELSE chainId[1].reference,
                          expiry |-> lg[1].expiry[1],
                          nonce |-> lg[1].nonce[1]])

\* ------------------------------------------------------- buyer: x402Fetch
CallIds == 1..MaxCalls

Eip155(chainId) == [namespace |-> "eip155", reference |-> chainId]
\* X-CHAIN-ID carries the bare chain id
BareChainId(chainId) == [namespace |-> "", reference |-> chainId]

\* the PAYMENT-REQUIRED object a seller sends for a token amount, a USD
\* price and a nonce
PaymentRequired(price, priceUsd, nonce) ==
    [decodable |-> TRUE, maxAmountRequired |-> Some(price),
     asset |-> Some(UsdcToken), payTo |-> Some("0xseller"),
     network |-> Some(Eip155(84532)),
     maxTimeoutSeconds |-> ExpiryDuration,
     extra |-> Some([priceUsd |-> Some(priceUsd), nonce |-> Some(nonce),
                     expiry |-> Some(now + ExpiryDuration)])]

LegacyHeaders(price, priceUsd, nonce) ==
    [price |-> Some(price), priceUsd |-> Some(priceUsd),
     token |-> Some(UsdcToken), seller |-> Some("0xseller"),
     chainId |-> Some(BareChainId(84532)), network |-> Some(Eip155(84532)),
     expiry |-> Some(now + ExpiryDuration), nonce |-> Some(nonce)]

\* the 402 responses a seller, honest or not, may answer the first request
\* with: both header forms with the token amount of the USD price or with a
\* larger one, the legacy form alone, a form without the USD price, an
\* undecodable header, no challenge at all, a PAYMENT-REQUIRED object that
\* names only its network, one without network, legacy headers without
\* nonce
ChallengeResponses ==
    LET both(p, u) == [paymentRequired |-> Some(PaymentRequired(p, u, 1)),
                       legacy |-> Some(LegacyHeaders(p, u, 1))]
    IN {both(usdToToken(u), u) : u \in Prices}
       \cup {both(1000, u) : u \in {1}}
       \cup {[paymentRequired |-> <<>>,
              legacy |-> Some(LegacyHeaders(usdToToken(MaxUsd + 1),
                                            MaxUsd + 1, 2))],
             [paymentRequired |-> <<>>,
              legacy |-> Some([LegacyHeaders(1000, 0, 2)
                                 EXCEPT !.priceUsd = <<>>])],
             [paymentRequired |->
                  Some([PaymentRequired(1, 1, 1) EXCEPT !.decodable = FALSE]),
              legacy |-> <<>>],
             [paymentRequired |-> <<>>, legacy |-> <<>>],
             [paymentRequired |->
                  Some([PaymentRequired(1, 1, 1) EXCEPT
                           !.maxAmountRequired = <<>>, !.asset = <<>>,
                           !.payTo = <<>>, !.extra = <<>>]),
              legacy |-> <<>>],
             [paymentRequired |->
                  Some([PaymentRequired(1, 1, 1) EXCEPT !.network = <<>>]),
              legacy |-> <<>>],
             [paymentRequired |-> <<>>,
              legacy |-> Some([LegacyHeaders(usdToToken(1), 1, 2)
                                 EXCEPT !.nonce = <<>>])]}

\* the policies of the buyer: enabled, without lists, with and without a
\* weekly cap and an endpoint cap
ClientPolicies ==
    {p \in Policies :
        /\ p.enabled /\ p.dailyCapUsd >= 1 /\ p.perCallCapUsd >= 1
        /\ p.allowTools = {} /\ p.denyTools = {}
        /\ p.allowDomains = {} /\ p.denyDomains = {}}

ClientOptions == [autoPay : BOOLEAN, maxRetries : 0..MaxRetries]
ClientHost == <<"api", "example", "com">>

IdleCall ==
    [pc |-> "idle", endpoint |-> "", headers |-> <<>>, decision |-> <<>>,
     signed |-> <<>>, proof |-> <<>>, retryCount |-> 0, paidRequests |-> <<>>,
     outcome |-> "", status |-> 0, x402Paid |-> FALSE, challenge |-> <<>>]

InitClient ==
    /\ cPolicy \in ClientPolicies
    /\ cOpts \in ClientOptions
    /\ calls = [c \in CallIds |-> IdleCall]
    /\ ledgerCtx = <<>>
    /\ ledgerPayments = <<>>
    /\ ledgerDecisions = <<>>

ClientIdle ==
    /\ cPolicy = DEFAULT_POLICY
    /\ cOpts = [autoPay |-> TRUE, maxRetries |-> 1]
    /\ InitClient

OutsideClient ==
    UNCHANGED <<evalVars, sellerVars, codecVars, pricingVars, exampleVars,
               budgetVars, composedVars, storageVars>>

\* InMemorySpendStorage.getSpendContext: the entry, created when missing
getSpendContext ==
    IF ledgerCtx # <<>> THEN ledgerCtx
    ELSE Some([dailySpentUsd |-> 0, weeklySpentUsd |-> 0, dailyCallCount |-> 0])

\* x402Fetch is called and sends the initial request (lines 55-70)
ClientCall(c) ==
    /\ calls[c].pc = "idle"
    /\ IF c = 1 THEN TRUE ELSE calls[c - 1].pc # "idle"
    /\ \E e \in DOMAIN Endpoints :
         calls' = [calls EXCEPT ![c] =
                      [IdleCall EXCEPT !.pc = "fetching",
                                       !.endpoint = Endpoints[e]]]
    /\ UNCHANGED <<cPolicy, cOpts, ledgerCtx, ledgerPayments, ledgerDecisions>>
    /\ OutsideClient

\* ClientInitialResponse that fetches the spend context before it looks at
\* the status
ClientInitialResponse_ReadsLedgerFirst(c) ==
    /\ calls[c].pc = "fetching"
    /\ \/ /\ calls' = [calls EXCEPT ![c].pc = "done",
                                    ![c].outcome = "fetch_error"]
          /\ UNCHANGED ledgerCtx
       \/ /\ \E status \in {200, 500} :
               calls' = [calls EXCEPT ![c].pc = "done",
                                      ![c].outcome = "response",
                                      ![c].status = status,
                                      ![c].x402Paid = FALSE]
          /\ ledgerCtx' = getSpendContext
       \/ \E response \in ChallengeResponses :
            LET headers == parse402Headers(response)
            IN IF headers = <<>>
               THEN /\ calls' = [calls EXCEPT ![c].pc = "done",
                                              ![c].outcome = "payment_error",
                                              ![c].challenge = Some(response)]
                    /\ ledgerCtx' = getSpendContext
               ELSE /\ calls' = [calls EXCEPT ![c].pc = "evaluate",
                                              ![c].headers = headers,
                                              ![c].challenge = Some(response)]
                    /\ ledgerCtx' = getSpendContext
    /\ UNCHANGED <<cPolicy, cOpts, ledgerPayments, ledgerDecisions>>
    /\ OutsideClient

\* lines 66-70: the initial fetch rejects
InitialFetchFails(c) ==
    /\ calls' = [calls EXCEPT ![c].pc = "done", ![c].outcome = "fetch_error"]
    /\ UNCHANGED ledgerCtx

\* lines 72-76: a response that is not a 402 is returned as it is
InitialPassedThrough(c, status) ==
    /\ calls' = [calls EXCEPT ![c].pc = "done",
                              ![c].outcome = "response",
                              ![c].status = status,
                              ![c].x402Paid = FALSE]
    /\ UNCHANGED ledgerCtx

\* lines 78-97: the 402 response is parsed and the spend context is fetched
InitialChallenged(c, response) ==
    LET headers == parse402Headers(response)
    IN IF headers = <<>>
       THEN /\ calls' = [calls EXCEPT ![c].pc = "done",
                                      ![c].outcome = "payment_error",
                                      ![c].challenge = Some(response)]
            /\ UNCHANGED ledgerCtx
       ELSE /\ calls' = [calls EXCEPT ![c].pc = "evaluate",
                                      ![c].headers = headers,
                                      ![c].challenge = Some(response)]
            /\ ledgerCtx' = getSpendContext

\* the initial response arrives (lines 70-94): a transport failure, a
\* status other than 402 (the response is returned with x402Paid false), or
\* a 402 whose headers are parsed; with a challenge the spend context is
\* fetched
ClientInitialResponse(c) ==
    /\ calls[c].pc = "fetching"
    /\ \/ InitialFetchFails(c)
       \/ \E status \in {200, 500} : InitialPassedThrough(c, status)
       \/ \E response \in ChallengeResponses : InitialChallenged(c, response)
    /\ UNCHANGED <<cPolicy, cOpts, ledgerPayments, ledgerDecisions>>
    /\ OutsideClient

\* ClientEvaluate that hands only denials to recordDecision
ClientEvaluate_RecordsOnlyDenials(c) ==
    /\ calls[c].pc = "evaluate"
    /\ LET headers == calls[c].headers[1]
           paymentRequest == parsePaymentRequest(calls[c].endpoint,
                                 ClientHost, headers.priceUsd)
           decision == evaluatePolicy(cPolicy, paymentRequest, ledgerCtx[1],
                                      TRUE)
       IN /\ calls' = [calls EXCEPT ![c].pc = "decided",
                                    ![c].decision = Some(decision)]
          /\ ledgerDecisions' =
                 IF decision.allow THEN ledgerDecisions
                 ELSE Append(ledgerDecisions,
                          [call |-> c, decision |-> decision,
                           endpoint |-> paymentRequest.endpoint,
                           priceUsd |-> headers.priceUsd])
    /\ UNCHANGED <<cPolicy, cOpts, ledgerCtx, ledgerPayments>>
    /\ OutsideClient

\* lines 94-106: the context object is read, the policy evaluated with the
\* full trace and the decision handed to recordDecision
ClientEvaluate(c) ==
    /\ calls[c].pc = "evaluate"
    /\ LET headers == calls[c].headers[1]
           paymentRequest == parsePaymentRequest(calls[c].endpoint,
                                 ClientHost, headers.priceUsd)
           decision == evaluatePolicy(cPolicy, paymentRequest, ledgerCtx[1],
                                      TRUE)
       IN /\ calls' = [calls EXCEPT ![c].pc = "decided",
                                    ![c].decision = Some(decision)]
          /\ ledgerDecisions' = Append(ledgerDecisions,
                 [call |-> c, decision |-> decision,
                  endpoint |-> paymentRequest.endpoint,
                  priceUsd |-> headers.priceUsd])
    /\ UNCHANGED <<cPolicy, cOpts, ledgerCtx, ledgerPayments>>
    /\ OutsideClient

\* ClientDecide without the autoPay test
ClientDecide_IgnoresAutoPay(c) ==
    /\ calls[c].pc = "decided"
    /\ LET headers == calls[c].headers[1]
       IN IF ~calls[c].decision[1].allow
          THEN calls' = [calls EXCEPT ![c].pc = "done",
                                      ![c].outcome = "policy_error"]
          ELSE calls' = [calls EXCEPT ![c].pc = "signing",
                            ![c].signed = Some([seller |-> headers.seller,
                                                amount |-> headers.price,
                                                token |-> headers.token,
                                                chainId |-> headers.chainId,
                                                nonce |-> headers.nonce,
                                                expiry |-> headers.expiry])]
    /\ UNCHANGED <<cPolicy, cOpts, ledgerCtx, ledgerPayments, ledgerDecisions>>
    /\ OutsideClient

\* lines 108-140: a denied or not automatic payment ends in X402PolicyError;
\* otherwise the wallet is asked to sign the challenge's fields
ClientDecide(c) ==
    /\ calls[c].pc = "decided"
    /\ LET headers == calls[c].headers[1]
       IN IF ~calls[c].decision[1].allow \/ ~cOpts.autoPay
          THEN calls' = [calls EXCEPT ![c].pc = "done",
                                      ![c].outcome = "policy_error"]
          ELSE calls' = [calls EXCEPT ![c].pc = "signing",
                            ![c].signed = Some([seller |-> headers.seller,
                                                amount |-> headers.price,
                                                token |-> headers.token,
                                                chainId |-> headers.chainId,
                                                nonce |-> headers.nonce,
                                                expiry |-> headers.expiry])]
    /\ UNCHANGED <<cPolicy, cOpts, ledgerCtx, ledgerPayments, ledgerDecisions>>
    /\ OutsideClient

\* SendPaid that builds a proof with another nonce for every attempt
SendPaid_NewNoncePerAttempt(call) ==
    IF call.retryCount < cOpts.maxRetries
    THEN [call EXCEPT !.pc = "paying",
                      !.paidRequests = Append(call.paidRequests,
                           [call.proof[1] EXCEPT
                               !.nonce = @ + Len(call.paidRequests)])]
    ELSE [call EXCEPT !.pc = "done", !.outcome = "payment_error"]

\* the next paid request of the retry loop, or the error after the loop
SendPaid(call) ==
    IF call.retryCount < cOpts.maxRetries
    THEN [call EXCEPT !.pc = "paying",
                      !.paidRequests = Append(call.paidRequests, call.proof[1])]
    ELSE [call EXCEPT !.pc = "done", !.outcome = "payment_error"]

\* ClientSigned that asks the wallet again after a failure, within the
\* retry budget
ClientSigned_RetriesSigning(c) ==
    /\ calls[c].pc = "signing"
    /\ \/ IF calls[c].retryCount < cOpts.maxRetries
          THEN calls' = [calls EXCEPT ![c].retryCount = @ + 1]
          ELSE calls' = [calls EXCEPT ![c].pc = "done",
                                      ![c].outcome = "payment_error"]
       \/ LET headers == calls[c].headers[1]
              proof == [signature |-> SigGood, payer |-> "0xbuyer",
                        nonce |-> headers.nonce, expiry |-> headers.expiry,
                        amount |-> headers.price, token |-> headers.token,
                        chainId |-> headers.chainId]
          IN calls' = [calls EXCEPT ![c] =
                          SendPaid([calls[c] EXCEPT !.proof = Some(proof)])]
    /\ UNCHANGED <<cPolicy, cOpts, ledgerCtx, ledgerPayments, ledgerDecisions>>
    /\ OutsideClient

\* lines 132-179: signPayment or getAddress rejects, or the proof is built
\* and the first paid request is sent
ClientSigned(c) ==
    /\ calls[c].pc = "signing"
    /\ \/ calls' = [calls EXCEPT ![c].pc = "done",
                                 ![c].outcome = "payment_error"]
       \/ LET headers == calls[c].headers[1]
              proof == [signature |-> SigGood, payer |-> "0xbuyer",
                        nonce |-> headers.nonce, expiry |-> headers.expiry,
                        amount |-> headers.price, token |-> headers.token,
                        chainId |-> headers.chainId]
          IN calls' = [calls EXCEPT ![c] =
                          SendPaid([calls[c] EXCEPT !.proof = Some(proof)])]
    /\ UNCHANGED <<cPolicy, cOpts, ledgerCtx, ledgerPayments, ledgerDecisions>>
    /\ OutsideClient

\* ClientPaidResponse that starts recordPayment for every response
ClientPaidResponse_RecordsAnyResponse(c) ==
    /\ calls[c].pc = "paying"
    /\ \/ calls' = [calls EXCEPT ![c] =
                       SendPaid([calls[c] EXCEPT
                                    !.retryCount = calls[c].retryCount + 1])]
       \/ \E status \in {200, 400, 402} :
            calls' = [calls EXCEPT ![c].pc = "recording",
                                   ![c].status = status]
    /\ UNCHANGED <<cPolicy, cOpts, ledgerCtx, ledgerPayments, ledgerDecisions>>
    /\ OutsideClient

\* lines 197-200: the paid fetch rejects; the count goes up and the request
\* is sent again
PaidFetchFails(c) ==
    calls' = [calls EXCEPT ![c] =
                 SendPaid([calls[c] EXCEPT
                              !.retryCount = calls[c].retryCount + 1])]

\* lines 181-196: the response of the paid request is there; recordPayment
\* is started when it is ok, and it is returned marked paid either way
PaidAnswered(c, status) ==
    IF status = 200
    THEN calls' = [calls EXCEPT ![c].pc = "recording", ![c].status = 200]
    ELSE calls' = [calls EXCEPT ![c].pc = "done",
                                ![c].outcome = "response",
                                ![c].status = status,
                                ![c].x402Paid = TRUE]

\* lines 170-200: the paid request fails in transport and is retried, or
\* its response arrives; an ok response starts recordPayment
ClientPaidResponse(c) ==
    /\ calls[c].pc = "paying"
    /\ \/ PaidFetchFails(c)
       \/ \E status \in {200, 400, 402} : PaidAnswered(c, status)
    /\ UNCHANGED <<cPolicy, cOpts, ledgerCtx, ledgerPayments, ledgerDecisions>>
    /\ OutsideClient

\* recordPayment that leaves the weekly accumulator alone
ClientRecordPayment_DailyOnly(c) ==
    /\ calls[c].pc = "recording"
    /\ \/ LET headers == calls[c].headers[1]
              context == getSpendContext[1]
          IN /\ ledgerCtx' = Some(
                    [dailySpentUsd |-> context.dailySpentUsd + headers.priceUsd,
                     weeklySpentUsd |-> context.weeklySpentUsd,
                     dailyCallCount |-> context.dailyCallCount + 1])
             /\ ledgerPayments' = Append(ledgerPayments,
                    [call |-> c, amountUsd |-> headers.priceUsd,
                     endpoint |-> calls[c].endpoint, nonce |-> headers.nonce])
             /\ calls' = [calls EXCEPT ![c].pc = "done",
                                       ![c].outcome = "response",
                                       ![c].x402Paid = TRUE]
       \/ /\ calls' = [calls EXCEPT ![c] =
                          SendPaid([calls[c] EXCEPT
                                       !.retryCount = calls[c].retryCount + 1])]
          /\ UNCHANGED <<ledgerCtx, ledgerPayments>>
    /\ UNCHANGED <<cPolicy, cOpts, ledgerDecisions>>
    /\ OutsideClient

\* storage.recordPayment settles (lines 183-196): InMemorySpendStorage
\* .recordPayment adds the price to the context and logs the payment, and
\* the response is returned paid; or the storage rejects, which the catch
\* of the retry loop (lines 197-200) takes like a failed request: the count
\* goes up and the paid request is sent again
ClientRecordPayment(c) ==
    /\ calls[c].pc = "recording"
    /\ \/ LET headers == calls[c].headers[1]
              context == getSpendContext[1]
          IN /\ ledgerCtx' = Some(
                    [dailySpentUsd |-> context.dailySpentUsd + headers.priceUsd,
                     weeklySpentUsd |-> context.weeklySpentUsd + headers.priceUsd,
                     dailyCallCount |-> context.dailyCallCount + 1])
             /\ ledgerPayments' = Append(ledgerPayments,
                    [call |-> c, amountUsd |-> headers.priceUsd,
                     endpoint |-> calls[c].endpoint, nonce |-> headers.nonce])
             /\ calls' = [calls EXCEPT ![c].pc = "done",
                                       ![c].outcome = "response",
                                       ![c].x402Paid = TRUE]
       \/ /\ calls' = [calls EXCEPT ![c] =
                          SendPaid([calls[c] EXCEPT
                                       !.retryCount = calls[c].retryCount + 1])]
          /\ UNCHANGED <<ledgerCtx, ledgerPayments>>
    /\ UNCHANGED <<cPolicy, cOpts, ledgerDecisions>>
    /\ OutsideClient

NoCallInFlight == \A c \in CallIds : calls[c].pc \in {"idle", "done"}
ClientCallSeq(c) == NoCallInFlight /\ ClientCall(c)

NextClient ==
    \/ \E c \in CallIds : ClientCall(c)
    \/ \E c \in CallIds : ClientInitialResponse(c)
    \/ \E c \in CallIds : ClientEvaluate(c)
    \/ \E c \in CallIds : ClientDecide(c)
    \/ \E c \in CallIds : ClientSigned(c)
    \/ \E c \in CallIds : ClientPaidResponse(c)
    \/ \E c \in CallIds : ClientRecordPayment(c)

\* the calls of the caller run strictly one after another
NextClientSeq ==
    \/ \E c \in CallIds : ClientCallSeq(c)
    \/ \E c \in CallIds : ClientInitialResponse(c)
    \/ \E c \in CallIds : ClientEvaluate(c)
    \/ \E c \in CallIds : ClientDecide(c)
    \/ \E c \in CallIds : ClientSigned(c)
    \/ \E c \in CallIds : ClientPaidResponse(c)
    \/ \E c \in CallIds : ClientRecordPayment(c)

\* ------------------------------------------------------ the wire encodings
\* createPaymentHeader without the expiry in its payload
createPaymentHeader_OmitsExpiry(proof) ==
    [decodable |-> TRUE,
     sig |-> Some(proof.signature),
     payer |-> Some(proof.payer),
     nonce |-> Some(proof.nonce),
     expiry |-> Undefined,
     amount |-> proof.amount,
     token |-> proof.token,
     chainId |-> proof.chainId]

\* createPaymentHeader: the payload of the proof's fields, as JSON in
\* base64; JSON.stringify leaves out a field whose value is undefined
createPaymentHeader(proof) ==
    [decodable |-> TRUE,
     sig |-> Some(proof.signature),
     payer |-> Some(proof.payer),
     nonce |-> Some(proof.nonce),
     expiry |-> Some(proof.expiry),
     amount |-> proof.amount,
     token |-> proof.token,
     chainId |-> proof.chainId]

chainIdToCAIP2(chainId) == Eip155(chainId)

createPaymentRequired(pricing, config, nonce, expiry) ==
    [decodable |-> TRUE,
     network |-> Some(chainIdToCAIP2(pricing.chainId)),
     maxAmountRequired |-> Some(pricing.priceToken),
     payTo |-> Some(config.sellerAddress),
     maxTimeoutSeconds |-> ExpiryDuration,
     asset |-> Some(pricing.token),
     extra |-> Some([priceUsd |-> Some(pricing.priceUsd),
                     nonce |-> Some(nonce),
                     expiry |-> Some(expiry)])]

\* create402Response: the PAYMENT-REQUIRED header and the legacy headers
create402Response(pricing, config, nonce, expiry) ==
    [paymentRequired |->
         Some(createPaymentRequired(pricing, config, nonce, expiry)),
     legacy |-> Some([price |-> Some(pricing.priceToken),
                      priceUsd |-> Some(pricing.priceUsd),
                      token |-> Some(pricing.token),
                      seller |-> Some(config.sellerAddress),
                      chainId |-> Some(BareChainId(pricing.chainId)),
                      network |-> Some(chainIdToCAIP2(pricing.chainId)),
                      expiry |-> Some(expiry),
                      nonce |-> Some(nonce)])]

\* the proofs x402Fetch builds (lines 142-150)
CodecProofs ==
    [signature : {SigGood, SigShort},
     payer : {"0xbuyer"},
     nonce : 0..MaxSellerRequests,
     expiry : ExpiryChoices,
     amount : {Some(usdToToken(u)) : u \in Prices},
     token : {Some(UsdcToken), Some(OtherToken),
              Some([UsdcToken EXCEPT !.upperCase = TRUE])},
     chainId : {1, 84532}]

\* the challenges withX402Paywall issues: a pricing of the configuration,
\* with its token and chain or another chain, a nonce and an expiry
CodecChallenges ==
    [pricing : {[normalizePricing(u, PaywallConfig) EXCEPT !.chainId = ch] :
                    u \in Prices, ch \in {1, 84532}},
     nonce : 1..MaxSellerRequests,
     expiry : ExpiryChoices]

NotYet == [proof |-> <<>>, challenge |-> <<>>]

CodecIdle ==
    /\ codecIn = NotYet
    /\ codecWire = NotYet
    /\ codecDelivered = <<>>
    /\ codecOut = NotYet

OutsideCodec ==
    UNCHANGED <<evalVars, sellerVars, clientVars, pricingVars, exampleVars,
               budgetVars, composedVars, storageVars>>

\* the buyer encodes its proof for the PAYMENT-SIGNATURE header
EncodeProof ==
    /\ codecWire.proof = <<>>
    /\ codecWire' = [codecWire EXCEPT
                        !.proof = Some(createPaymentHeader(codecIn.proof[1]))]
    /\ UNCHANGED <<codecIn, codecDelivered, codecOut>>
    /\ OutsideCodec

\* the seller decodes the header
DecodeProof ==
    /\ codecWire.proof # <<>> /\ codecOut.proof = <<>>
    /\ codecOut' = [codecOut EXCEPT
                       !.proof = Some(parsePaymentHeader(codecWire.proof[1]))]
    /\ UNCHANGED <<codecIn, codecWire, codecDelivered>>
    /\ OutsideCodec

\* the seller builds the 402 response of its challenge
EncodeChallenge ==
    /\ codecWire.challenge = <<>>
    /\ LET ch == codecIn.challenge[1]
       IN codecWire' = [codecWire EXCEPT !.challenge =
              Some(create402Response(ch.pricing, PaywallConfig, ch.nonce,
                                     ch.expiry))]
    /\ UNCHANGED <<codecIn, codecDelivered, codecOut>>
    /\ OutsideCodec

\* the header forms a 402 response may reach parse402Headers with: both as
\* create402Response sent them, one form alone, a PAYMENT-REQUIRED value
\* that is not base64 of JSON, legacy headers of another challenge beside
\* the PAYMENT-REQUIRED header, and a PAYMENT-REQUIRED object without its
\* network field
HeaderForms ==
    {"both", "official", "legacy", "garbled", "foreign", "no network",
     "no network alone"}

\* the legacy headers of another challenge: twice the amount and one more,
\* another payee, another chain, a later expiry, another nonce
ForeignLegacy(lg) ==
    [lg EXCEPT !.price = Some(2 * lg.price[1] + 1),
               !.seller = Some("0xother"),
               !.chainId = Some(BareChainId(lg.chainId[1].reference + 1)),
               !.network = Some(Eip155(lg.network[1].reference + 1)),
               !.expiry = Some(lg.expiry[1] + 1),
               !.nonce = Some(lg.nonce[1] + 1)]

Delivered(form, response) ==
    LET pr == response.paymentRequired[1]
        lg == response.legacy[1]
    IN CASE form = "both" -> response
         [] form = "official" -> [response EXCEPT !.legacy = <<>>]
         [] form = "legacy" -> [response EXCEPT !.paymentRequired = <<>>]
         [] form = "garbled" ->
              [response EXCEPT
                  !.paymentRequired = Some([pr EXCEPT !.decodable = FALSE])]
         [] form = "foreign" ->
              [response EXCEPT !.legacy = Some(ForeignLegacy(lg))]
         [] form = "no network" ->
              [paymentRequired |-> Some([pr EXCEPT !.network = <<>>]),
               legacy |-> Some(ForeignLegacy(lg))]
         [] form = "no network alone" ->
              [paymentRequired |-> Some([pr EXCEPT !.network = <<>>]),
               legacy |-> <<>>]

\* the response reaches the buyer
DeliverChallenge ==
    /\ codecWire.challenge # <<>> /\ codecDelivered = <<>>
    /\ \E form \in HeaderForms :
          codecDelivered' = Some(Delivered(form, codecWire.challenge[1]))
    /\ UNCHANGED <<codecIn, codecWire, codecOut>>
    /\ OutsideCodec

\* the buyer decodes the response's headers
DecodeChallenge ==
    /\ codecDelivered # <<>> /\ codecOut.challenge = <<>>
    /\ codecOut' = [codecOut EXCEPT !.challenge =
                       Some(parse402Headers(codecDelivered[1]))]
    /\ UNCHANGED <<codecIn, codecWire, codecDelivered>>
    /\ OutsideCodec

NextCodec ==
    \/ EncodeProof
    \/ DecodeProof
    \/ EncodeChallenge
    \/ DeliverChallenge
    \/ DecodeChallenge

\* ------------------------------------------------ one price resolution
\* the keys of a pricing table, each with its price
PricingEntries ==
    {[pattern |-> "/tool/extract", priceUsd |-> 3],
     [pattern |-> "/tool/*", priceUsd |-> 1],
     [pattern |-> "/tool/**", priceUsd |-> 2],
     [pattern |-> "/feed.xml", priceUsd |-> 4]}

MaxPricingEntries == 3

\* pricing tables in their insertion order: no key twice
PricingTables ==
    {t \in UNION {[1..n -> PricingEntries] : n \in 0..MaxPricingEntries} :
        \A i, j \in DOMAIN t : i # j => t[i].pattern # t[j].pattern}

PricingConfigs ==
    {[PaywallConfig EXCEPT !.pricing = t, !.defaultPriceUsd = d] :
        t \in PricingTables, d \in {Undefined, Some(5)}}

PricingPaths ==
    {"/tool/extract", "/tool/quote", "/tool/a/b", "/health", "/feed.xml",
     "/feedAxml"}

\* no call of getPriceForEndpoint returned yet
Unresolved == [resolved |-> FALSE, pricing |-> <<>>]

PricingIdle ==
    /\ priceEndpoint = "/health"
    /\ priceConfig = PaywallConfig
    /\ priceResult = Unresolved

OutsidePricing ==
    UNCHANGED <<evalVars, sellerVars, clientVars, codecVars, exampleVars,
               budgetVars, composedVars, storageVars>>

ResolvePrice ==
    /\ ~priceResult.resolved
    /\ priceResult' =
          [resolved |-> TRUE,
           pricing |-> getPriceForEndpoint(priceEndpoint, priceConfig)]
    /\ UNCHANGED <<priceEndpoint, priceConfig>>
    /\ OutsidePricing

NextPricing == ResolvePrice

\* ------------------------------------- requests evaluated one after another
\* a cent in the model's USD unit
Cent == UsdUnitsPerDollar \div 100

\* dailyCapUsd 1.00, perCallCapUsd 0.10, no weekly cap, empty lists
ExamplePolicy ==
    [DEFAULT_POLICY EXCEPT !.dailyCapUsd = 100 * Cent,
                           !.weeklyCapUsd = Undefined,
                           !.perCallCapUsd = 10 * Cent]

\* 0.02, 0.03, 0.05 and 0.25 USD
ExamplePrices == {2 * Cent, 3 * Cent, 5 * Cent, 25 * Cent}

MaxExampleCalls == 4

ExampleIdle ==
    /\ exContext = EMPTY_SPEND_CONTEXT
    /\ exLog = <<>>

OutsideExample ==
    UNCHANGED <<evalVars, sellerVars, clientVars, codecVars, pricingVars,
                budgetVars, composedVars, storageVars>>

\* one request: evaluatePolicy against the context so far and, when it
\* allows, the payment added to the context as recordPayment adds it
ExampleCall ==
    /\ Len(exLog) < MaxExampleCalls
    /\ \E priceUsd \in ExamplePrices :
          LET request == parsePaymentRequest("/tool/extract",
                                             CHOOSE h \in Hosts : TRUE,
                                             priceUsd)
              decision == evaluatePolicy(ExamplePolicy, request, exContext,
                                         FALSE)
              after == IF decision.allow
                       THEN [dailySpentUsd |->
                                 exContext.dailySpentUsd + priceUsd,
                             weeklySpentUsd |->
                                 exContext.weeklySpentUsd + priceUsd,
                             dailyCallCount |-> exContext.dailyCallCount + 1]
                       ELSE exContext
          IN /\ exContext' = after
             /\ exLog' = Append(exLog, [priceUsd |-> priceUsd,
                                        decision |-> decision,
                                        context |-> after])
    /\ OutsideExample

NextExample == ExampleCall

\* no request of the seller carries a call of the buyer
Unserved == [r \in SellerRequestIds |-> <<>>]
ComposedIdle == served = Unserved

\* the callers of the shared storage, and the storage as constructed
StorageCallers == {"agent-a", "agent-b"}
StorageIdle ==
    /\ stContexts = [k \in StorageCallers |-> <<>>]
    /\ stPayments = <<>>
    /\ stDecisions = <<>>
    /\ stPending = <<>>

\* ------------------------------------------ specification: one evaluation
BudgetIdle ==
    /\ evBudget = Undefined
    /\ evMaxPrice = Undefined

EvalIdle ==
    /\ evPolicy = DEFAULT_POLICY
    /\ evRequest = parsePaymentRequest(Endpoints[1],
                                       CHOOSE h \in Hosts : TRUE, 0)
    /\ evContext = EMPTY_SPEND_CONTEXT
    /\ evFullTrace = FALSE
    /\ evDecision = Undefined

InitEval ==
    /\ evPolicy \in Policies
    /\ evRequest \in {parsePaymentRequest(Endpoints[e], h, p) :
                          e \in DOMAIN Endpoints, h \in Hosts, p \in Prices}
    /\ evContext \in SpendContexts
    /\ evFullTrace = FALSE
    /\ evDecision = Undefined
    /\ SellerIdle
    /\ ClientIdle
    /\ CodecIdle
    /\ PricingIdle
    /\ ExampleIdle
    /\ BudgetIdle /\ ComposedIdle /\ StorageIdle

OutsideEval ==
    UNCHANGED <<sellerVars, clientVars, codecVars, pricingVars, exampleVars,
               budgetVars, composedVars, storageVars>>

Evaluate ==
    /\ evDecision = Undefined
    /\ \E fullTrace \in BOOLEAN :
          /\ evFullTrace' = fullTrace
          /\ evDecision' = Some(evaluatePolicy(evPolicy, evRequest, evContext,
                                               fullTrace))
    /\ UNCHANGED <<evPolicy, evRequest, evContext>>
    /\ OutsideEval

NextEval == Evaluate

SpecEval == InitEval /\ [][NextEval]_vars

\* ------------------------ specification: an evaluator asked for its limits
OutsideBudget ==
    UNCHANGED <<sellerVars, clientVars, codecVars, pricingVars, exampleVars,
               composedVars, storageVars>>

\* createPolicyEvaluator(...).getRemainingBudget(context, policy)
GetRemainingBudget ==
    /\ evBudget = Undefined
    /\ evBudget' = Some(getRemainingBudget(evContext, evPolicy))
    /\ UNCHANGED <<evalVars, evMaxPrice>>
    /\ OutsideBudget

\* createPolicyEvaluator(...).getMaxAllowedPrice(request, context, policy)
GetMaxAllowedPrice ==
    /\ evMaxPrice = Undefined
    /\ evMaxPrice' = Some(getMaxAllowedPrice(evRequest, evContext, evPolicy))
    /\ UNCHANGED <<evalVars, evBudget>>
    /\ OutsideBudget

NextBudget ==
    \/ Evaluate
    \/ GetRemainingBudget
    \/ GetMaxAllowedPrice

SpecBudget == InitEval /\ [][NextBudget]_vars

\* --------------------------------------------- specifications: the seller
InitSellerAlone ==
    EvalIdle /\ ClientIdle /\ CodecIdle /\ PricingIdle /\ ExampleIdle
    /\ BudgetIdle /\ ComposedIdle /\ StorageIdle /\ InitSeller
SpecSeller == InitSellerAlone /\ [][NextSeller]_vars
SpecSellerSeq == InitSellerAlone /\ [][NextSellerSeq]_vars

\* ---------------------------------------------- specifications: the buyer
InitClientAlone ==
    EvalIdle /\ SellerIdle /\ CodecIdle /\ PricingIdle /\ ExampleIdle
    /\ BudgetIdle /\ ComposedIdle /\ StorageIdle /\ InitClient
SpecClient == InitClientAlone /\ [][NextClient]_vars
SpecClientSeq == InitClientAlone /\ [][NextClientSeq]_vars

\* ------------------------------------ specification: the wire encodings
InitCodec ==
    /\ codecIn \in [proof : {Some(p) : p \in CodecProofs},
                    challenge : {Some(ch) : ch \in CodecChallenges}]
    /\ codecWire = NotYet
    /\ codecDelivered = <<>>
    /\ codecOut = NotYet
    /\ EvalIdle
    /\ SellerIdle
    /\ ClientIdle
    /\ PricingIdle
    /\ ExampleIdle
    /\ BudgetIdle /\ ComposedIdle /\ StorageIdle

SpecCodec == InitCodec /\ [][NextCodec]_vars

\* ------------------------------------ specification: one price resolution
InitPricing ==
    /\ priceEndpoint \in PricingPaths
    /\ priceConfig \in PricingConfigs
    /\ priceResult = Unresolved
    /\ EvalIdle
    /\ SellerIdle
    /\ ClientIdle
    /\ CodecIdle
    /\ ExampleIdle
    /\ BudgetIdle /\ ComposedIdle /\ StorageIdle

SpecPricing == InitPricing /\ [][NextPricing]_vars

\* ------------------------- specification: requests one after another
InitExample ==
    /\ exContext = EMPTY_SPEND_CONTEXT
    /\ exLog = <<>>
    /\ EvalIdle
    /\ SellerIdle
    /\ ClientIdle
    /\ CodecIdle
    /\ PricingIdle
    /\ BudgetIdle /\ ComposedIdle /\ StorageIdle

SpecExample == InitExample /\ [][NextExample]_vars

\* ------------------------------------------- the buyer calling the seller
\* x402Fetch of the buyer sends its requests to a worker wrapped in
\* withX402Paywall: every fetch of a call is a request of the seller, and
\* the response of that request, when it gets back, is what the call sees

\* what neither side touches
OutsideBoth ==
    UNCHANGED <<evalVars, codecVars, pricingVars, exampleVars, budgetVars,
               storageVars>>

\* the requests of the seller that carry attempt k of call c
RequestsOf(c, k) ==
    {r \in SellerRequestIds :
        served[r] # <<>> /\ served[r][1].call = c /\ served[r][1].attempt = k}

\* the status the buyer sees for a request that ended: the response of the
\* middleware, or the error page of the runtime when an exception left it
StatusSeen(r) == IF sReq[r].status = 0 THEN 500 ELSE sReq[r].status

\* fetch(url, init) of the initial request (client lines 66-70) reaches the
\* worker: the middleware runs up to its first await
InitialRequestArrives(c, r) ==
    /\ calls[c].pc = "fetching"
    /\ RequestsOf(c, 0) = {}
    /\ sReq[r].pc = "idle"
    /\ IF r = 1 THEN TRUE ELSE sReq[r - 1].pc # "idle"
    /\ SellerAccepts(r, calls[c].endpoint, <<>>)
    /\ served' = [served EXCEPT ![r] = Some([call |-> c, attempt |-> 0])]
    /\ UNCHANGED <<now, sellerOpts, kv, pendingReceipts, receipts>>
    /\ UNCHANGED clientVars
    /\ OutsideBoth

\* the response of the initial request gets back to the call: the 402 with
\* the challenge headers of create402Response, or the handler's response of
\* a free path
InitialResponseArrives(c, r) ==
    /\ calls[c].pc = "fetching"
    /\ r \in RequestsOf(c, 0)
    /\ sReq[r].pc = "done"
    /\ IF sReq[r].status = 402
       THEN InitialChallenged(c,
                create402Response(
                    getPriceForEndpoint(sReq[r].endpoint, PaywallConfig)[1],
                    PaywallConfig, sReq[r].nonce, sReq[r].expiry))
       ELSE InitialPassedThrough(c, StatusSeen(r))
    /\ UNCHANGED <<cPolicy, cOpts, ledgerPayments, ledgerDecisions>>
    /\ UNCHANGED <<sellerVars, composedVars>>
    /\ OutsideBoth

\* the initial fetch rejects: the request or its response is lost
InitialRequestFails(c) ==
    /\ calls[c].pc = "fetching"
    /\ InitialFetchFails(c)
    /\ UNCHANGED <<cPolicy, cOpts, ledgerPayments, ledgerDecisions>>
    /\ UNCHANGED <<sellerVars, composedVars>>
    /\ OutsideBoth

\* fetch of the paid request (client lines 170-179) reaches the worker with
\* the proof of the call in its PAYMENT-SIGNATURE and X-PAYMENT headers
PaidRequestArrives(c, r) ==
    /\ calls[c].pc = "paying"
    /\ RequestsOf(c, Len(calls[c].paidRequests)) = {}
    /\ sReq[r].pc = "idle"
    /\ IF r = 1 THEN TRUE ELSE sReq[r - 1].pc # "idle"
    /\ SellerAccepts(r, calls[c].endpoint,
           Some(createPaymentHeader(
                    calls[c].paidRequests[Len(calls[c].paidRequests)])))
    /\ served' = [served EXCEPT ![r] =
           Some([call |-> c, attempt |-> Len(calls[c].paidRequests)])]
    /\ UNCHANGED <<now, sellerOpts, kv, pendingReceipts, receipts>>
    /\ UNCHANGED clientVars
    /\ OutsideBoth

\* the response of the paid request in flight gets back to the call
PaidResponseArrives(c, r) ==
    /\ calls[c].pc = "paying"
    /\ r \in RequestsOf(c, Len(calls[c].paidRequests))
    /\ sReq[r].pc = "done"
    /\ PaidAnswered(c, StatusSeen(r))
    /\ UNCHANGED <<cPolicy, cOpts, ledgerCtx, ledgerPayments, ledgerDecisions>>
    /\ UNCHANGED <<sellerVars, composedVars>>
    /\ OutsideBoth

\* the paid fetch rejects: the request or its response is lost, whatever
\* the seller did with it
PaidRequestFails(c) ==
    /\ calls[c].pc = "paying"
    /\ PaidFetchFails(c)
    /\ UNCHANGED <<cPolicy, cOpts, ledgerCtx, ledgerPayments, ledgerDecisions>>
    /\ UNCHANGED <<sellerVars, composedVars>>
    /\ OutsideBoth

NextComposed ==
    \/ \E c \in CallIds : ClientCall(c)
    \/ \E c \in CallIds, r \in SellerRequestIds : InitialRequestArrives(c, r)
    \/ \E c \in CallIds, r \in SellerRequestIds : InitialResponseArrives(c, r)
    \/ \E c \in CallIds : InitialRequestFails(c)
    \/ \E c \in CallIds : ClientEvaluate(c)
    \/ \E c \in CallIds : ClientDecide(c)
    \/ \E c \in CallIds : ClientSigned(c)
    \/ \E c \in CallIds, r \in SellerRequestIds : PaidRequestArrives(c, r)
    \/ \E r \in SellerRequestIds : SellerKvGet(r)
    \/ \E r \in SellerRequestIds : SellerKvPut(r)
    \/ \E r \in SellerRequestIds : SellerInvokeHandler(r)
    \/ \E r \in SellerRequestIds : SellerRespond(r)
    \/ SellerStoreReceipt
    \/ \E c \in CallIds, r \in SellerRequestIds : PaidResponseArrives(c, r)
    \/ \E c \in CallIds : PaidRequestFails(c)
    \/ \E c \in CallIds : ClientRecordPayment(c)

\* a seller that checks for replays against its nonce store, and a buyer
InitComposed ==
    /\ EvalIdle /\ CodecIdle /\ PricingIdle /\ ExampleIdle
    /\ BudgetIdle /\ StorageIdle
    /\ InitSeller /\ sellerOpts.checkReplay /\ sellerOpts.kv
    /\ InitClient
    /\ served = Unserved
SpecComposed == InitComposed /\ [][NextComposed]_vars

\* ------------------------------------ InMemorySpendStorage, several callers
StorageAmounts == 0..(MaxUsd + 1)

OutsideStorage ==
    UNCHANGED <<evalVars, sellerVars, clientVars, codecVars, pricingVars,
               exampleVars, budgetVars, composedVars>>

\* createSpendContext(callerId): the accumulators of EMPTY_SPEND_CONTEXT
createSpendContext == EMPTY_SPEND_CONTEXT

\* the contexts map after getSpendContext(callerId): the entry is created
\* when the map has none
ContextsAfterGet(callerId) ==
    IF stContexts[callerId] # <<>> THEN stContexts
    ELSE [stContexts EXCEPT ![callerId] = Some(createSpendContext)]

\* getSpendContext(callerId)
StorageGetSpendContext(callerId) ==
    /\ stContexts' = ContextsAfterGet(callerId)
    /\ UNCHANGED <<stPayments, stDecisions, stPending>>
    /\ OutsideStorage

\* recordPayment(callerId, amountUsd, metadata) up to its await: the call
\* of getSpendContext runs at once, the rest waits for the promise
RecordPaymentCalled(callerId, amountUsd) ==
    /\ Len(stPayments) + Len(stPending) < MaxStoragePayments
    /\ stContexts' = ContextsAfterGet(callerId)
    /\ stPending' = Append(stPending,
           [callerId |-> callerId, amountUsd |-> amountUsd])
    /\ UNCHANGED <<stPayments, stDecisions>>
    /\ OutsideStorage

\* a recordPayment that keeps one set of accumulators for all callers
RecordPaymentResumed_AddsToEveryContext ==
    /\ stPending # <<>>
    /\ LET call == Head(stPending)
       IN /\ stContexts' =
                [k \in StorageCallers |->
                    IF stContexts[k] = <<>> THEN <<>>
                    ELSE Some([dailySpentUsd |->
                                   stContexts[k][1].dailySpentUsd
                                       + call.amountUsd,
                               weeklySpentUsd |->
                                   stContexts[k][1].weeklySpentUsd
                                       + call.amountUsd,
                               dailyCallCount |->
                                   stContexts[k][1].dailyCallCount + 1])]
          /\ stPayments' = Append(stPayments, call)
          /\ stPending' = Tail(stPending)
    /\ UNCHANGED stDecisions
    /\ OutsideStorage

\* recordPayment after its await, in the order of the calls: the three
\* accumulators of the caller's context go up and the payment is pushed
RecordPaymentResumed ==
    /\ stPending # <<>>
    /\ LET call == Head(stPending)
           context == stContexts[call.callerId][1]
       IN /\ stContexts' =
                [stContexts EXCEPT ![call.callerId] =
                    Some([dailySpentUsd |->
                              context.dailySpentUsd + call.amountUsd,
                          weeklySpentUsd |->
                              context.weeklySpentUsd + call.amountUsd,
                          dailyCallCount |-> context.dailyCallCount + 1])]
          /\ stPayments' = Append(stPayments, call)
          /\ stPending' = Tail(stPending)
    /\ UNCHANGED stDecisions
    /\ OutsideStorage

\* recordDecision(callerId, decision, metadata)
StorageRecordDecision(callerId, allow) ==
    /\ Len(stDecisions) < MaxStorageDecisions
    /\ stDecisions' = Append(stDecisions,
           [callerId |-> callerId, allow |-> allow])
    /\ UNCHANGED <<stContexts, stPayments, stPending>>
    /\ OutsideStorage

NextStorage ==
    \/ \E callerId \in StorageCallers : StorageGetSpendContext(callerId)
    \/ \E callerId \in StorageCallers, amountUsd \in StorageAmounts :
          RecordPaymentCalled(callerId, amountUsd)
    \/ RecordPaymentResumed
    \/ \E callerId \in StorageCallers, allow \in BOOLEAN :
          StorageRecordDecision(callerId, allow)

InitStorage ==
    /\ EvalIdle /\ SellerIdle /\ ClientIdle /\ CodecIdle /\ PricingIdle
    /\ ExampleIdle /\ BudgetIdle /\ ComposedIdle /\ StorageIdle
SpecStorage == InitStorage /\ [][NextStorage]_vars

\* ------------------------------------------------ claims on evaluatePolicy
Evaluated == evDecision # Undefined
Decision == evDecision[1]
RuleOrder ==
    <<"policy_enabled", "tool_denylist", "domain_denylist", "tool_allowlist",
      "domain_allowlist", "per_call_cap", "daily_cap", "weekly_cap">>

\* C3: allow = true implies dailySpentUsd + priceUsd <= dailyCapUsd, priceUsd
\* <= the effective per-call cap and, whenever the policy has a weekly cap
\* (weeklyCapUsd is not undefined), weeklySpentUsd + priceUsd <= weeklyCapUsd.
C3_AllowWithinAllCaps ==
    (Evaluated /\ Decision.allow) =>
        /\ evContext.dailySpentUsd + evRequest.priceUsd <= evPolicy.dailyCapUsd
        /\ evRequest.priceUsd <= EffectivePerCallCap(evPolicy, evRequest.endpoint)
        /\ IsDefined(evPolicy.weeklyCapUsd) =>
              evContext.weeklySpentUsd + evRequest.priceUsd
                  <= evPolicy.weeklyCapUsd[1]

ToolDenied == evRequest.tool \in evPolicy.denyTools
DomainDenied == \E d \in evPolicy.denyDomains : DomainMatches(evRequest.domain, d)
ToolAllowed == evRequest.tool \in evPolicy.allowTools
DomainAllowed == \E d \in evPolicy.allowDomains : DomainMatches(evRequest.domain, d)

\* C6: under an enabled policy a request whose tool is in denyTools or whose
\* domain matches denyDomains is denied with ruleId tool_denylist or
\* domain_denylist, whatever the allowlists hold; in particular when the
\* tool or the domain is on both lists.
C6_DenylistPrecedence ==
    (Evaluated /\ evPolicy.enabled /\ (ToolDenied \/ DomainDenied)) =>
        /\ ~Decision.allow
        /\ Decision.ruleId \in {"tool_denylist", "domain_denylist"}
        /\ ToolDenied => Decision.ruleId = "tool_denylist"

C6_Witness ==
    /\ Evaluated /\ evPolicy.enabled
    /\ ~ToolDenied /\ DomainDenied /\ DomainAllowed
    /\ evPolicy.allowDomains # evPolicy.denyDomains
    /\ Decision.ruleId = "domain_denylist"

FirstFailed(trace) ==
    CHOOSE i \in 1..Len(trace) :
        ~trace[i].passed /\ \A j \in 1..(i - 1) : trace[j].passed

\* C8: allow is true exactly when every trace entry passed, and then ruleId
\* is all_passed; otherwise ruleId and reason are those of the first trace
\* entry that did not pass.
C8_DecisionReflectsFirstFailure ==
    Evaluated =>
        LET tr == Decision.trace
            allPassed == \A i \in 1..Len(tr) : tr[i].passed
        IN /\ Decision.allow <=> allPassed
           /\ allPassed => Decision.ruleId = "all_passed"
           /\ ~allPassed =>
                 /\ Decision.ruleId = tr[FirstFailed(tr)].ruleId
                 /\ Decision.reason = tr[FirstFailed(tr)].reason

\* a full trace with two failed entries, the first one reported
C8_Witness ==
    /\ Evaluated /\ evFullTrace
    /\ Cardinality({i \in 1..Len(Decision.trace) : ~Decision.trace[i].passed}) >= 2
    /\ Decision.ruleId = Decision.trace[FirstFailed(Decision.trace)].ruleId

\* C9: in short-circuit mode the trace is the prefix of the rule order that
\* ends at the first failing rule: every entry but the last passed, and the
\* trace has all eight entries when its last entry passed.
C9_ShortCircuitPrefix ==
    (Evaluated /\ ~evFullTrace) =>
        LET tr == Decision.trace
        IN /\ Len(tr) \in 1..8
           /\ \A i \in 1..Len(tr) :
                 /\ tr[i].ruleId = RuleOrder[i]
                 /\ tr[i] = ApplyRule(ALL_RULES[i], evPolicy, evRequest, evContext)
           /\ \A i \in 1..(Len(tr) - 1) : tr[i].passed
           /\ tr[Len(tr)].passed => Len(tr) = 8

\* a short-circuit trace cut at a failing rule in the middle of the order
C9_Witness ==
    /\ Evaluated /\ ~evFullTrace
    /\ Len(Decision.trace) = 6
    /\ ~Decision.trace[6].passed

\* C10: in full-trace mode the trace has exactly one entry per rule, in the
\* fixed rule order, whatever failed earlier.
C10_FullTraceAllRules ==
    (Evaluated /\ evFullTrace) =>
        /\ Len(Decision.trace) = 8
        /\ \A i \in 1..8 :
              /\ Decision.trace[i].ruleId = RuleOrder[i]
              /\ Decision.trace[i] =
                    ApplyRule(ALL_RULES[i], evPolicy, evRequest, evContext)

\* a full trace whose first entry failed and that still has all entries
C10_Witness ==
    /\ Evaluated /\ evFullTrace
    /\ ~Decision.trace[1].passed
    /\ Len(Decision.trace) = 8

\* ------------------------------------------------- claims on the seller
ReplayOn == sellerOpts.checkReplay /\ sellerOpts.kv
PaidCalls(n) ==
    Cardinality({i \in DOMAIN handlerCalls :
                    handlerCalls[i].paid /\ handlerCalls[i].nonce = n})
Accepted(r) ==
    \E i \in DOMAIN handlerCalls :
        handlerCalls[i].paid /\ handlerCalls[i].req = r
VerificationReasons ==
    {"Payment has expired", "Token mismatch", "Chain ID mismatch",
     "Insufficient payment amount", "Invalid signature"}

\* C1: with replay checking on and requests handled one after another, the
\* handler is invoked with paid:true at most once per nonce, and a request
\* presenting a proof whose nonce an earlier request had accepted is
\* rejected, with status 400 when the proof passes verification.
C1_NonceAcceptedOnceSequential ==
    ReplayOn =>
        /\ \A n \in 0..MaxSellerRequests : PaidCalls(n) <= 1
        /\ \A r1, r2 \in SellerRequestIds :
             (/\ r1 < r2 /\ Accepted(r1)
              /\ sReq[r2].pc = "done" /\ sReq[r2].payment # <<>>
              /\ sReq[r2].payment[1].nonce = sReq[r1].payment[1].nonce)
             => /\ sReq[r2].status \in {400, 402}
                /\ sReq[r2].error \notin VerificationReasons
                     => sReq[r2].status = 400

\* C2: with replay checking on, of concurrent requests that carry a proof
\* with the same nonce at most one is handed to the protected handler: no
\* two of them are inside the handler together.
C2_ConcurrentSameNonceOneHandler ==
    ReplayOn =>
        \A r1, r2 \in SellerRequestIds :
            (/\ r1 # r2
             /\ sReq[r1].pc = "handler_running"
             /\ sReq[r2].pc = "handler_running")
            => sReq[r1].payment[1].nonce # sReq[r2].payment[1].nonce

\* -------------------------------------------------- claims on the buyer
PaymentOf(c) == {i \in DOMAIN ledgerPayments : ledgerPayments[i].call = c}
DecisionRecordOf(c) ==
    {i \in DOMAIN ledgerDecisions : ledgerDecisions[i].call = c}

\* C4: with the calls of one caller run one after another from zero spend,
\* the ledger's dailySpentUsd never exceeds dailyCapUsd, its weeklySpentUsd
\* never exceeds a weekly cap the policy has, and every recorded payment is
\* at most the effective per-call cap of its endpoint.
C4_SequentialLedgerWithinCaps ==
    /\ getSpendContext[1].dailySpentUsd <= cPolicy.dailyCapUsd
    /\ IsDefined(cPolicy.weeklyCapUsd) =>
          getSpendContext[1].weeklySpentUsd <= cPolicy.weeklyCapUsd[1]
    /\ \A i \in DOMAIN ledgerPayments :
          ledgerPayments[i].amountUsd
              <= EffectivePerCallCap(cPolicy, ledgerPayments[i].endpoint)

\* C5: every payment in the ledger was allowed against the spend its own
\* call read (read daily spend + price <= dailyCapUsd), so that an overspent
\* ledger comes from calls that each fitted the budget they saw.
C5_EachPaymentFittedItsSnapshot ==
    \A i \in DOMAIN ledgerPayments :
        LET d == calls[ledgerPayments[i].call].decision[1]
        IN /\ d.allow
           /\ d.currentDailySpend + ledgerPayments[i].amountUsd
                 <= cPolicy.dailyCapUsd

\* two calls read the same pre-charge spend, both pass, both record, and
\* the ledger's dailySpentUsd is above the cap
C5_Witness ==
    \E c1, c2 \in CallIds :
        /\ c1 # c2
        /\ PaymentOf(c1) # {} /\ PaymentOf(c2) # {}
        /\ calls[c1].decision[1].allow /\ calls[c2].decision[1].allow
        /\ calls[c1].decision[1].currentDailySpend
             = calls[c2].decision[1].currentDailySpend
        /\ calls[c1].decision[1].projectedSpend <= cPolicy.dailyCapUsd
        /\ calls[c2].decision[1].projectedSpend <= cPolicy.dailyCapUsd
        /\ ledgerCtx[1].dailySpentUsd > cPolicy.dailyCapUsd

\* C7: in every call that reaches signing, the token amount handed to
\* wallet.signPayment is the USD price the policy judged, converted at the
\* 6-decimal scale.
C7_SignedAmountIsJudgedPrice ==
    \A c \in CallIds :
        calls[c].signed # <<>> =>
            \A i \in DecisionRecordOf(c) :
                calls[c].signed[1].amount
                    = Some(usdToToken(ledgerDecisions[i].priceUsd))

\* ------------------------------------- claims on the two trace modes
IsPrefix(s, t) == Len(s) <= Len(t) /\ s = SubSeq(t, 1, Len(s))

\* C11: for the same policy, request and context the short-circuit and the
\* full-trace evaluation return the same allow, reason, ruleId,
\* projectedSpend and remaining budgets, the short-circuit trace is a prefix
\* of the full trace, and isAllowed equals evaluate(...).allow whatever
\* fullTrace option the evaluator has.
C11_TraceModesAgree ==
    Evaluated =>
        LET other == evaluatePolicy(evPolicy, evRequest, evContext,
                                    ~evFullTrace)
            short == IF evFullTrace THEN other ELSE Decision
            full == IF evFullTrace THEN Decision ELSE other
            options == [fullTrace |-> evFullTrace]
        IN /\ short.allow = full.allow
           /\ short.reason = full.reason
           /\ short.ruleId = full.ruleId
           /\ short.projectedSpend = full.projectedSpend
           /\ short.remainingDailyBudget = full.remainingDailyBudget
           /\ short.remainingWeeklyBudget = full.remainingWeeklyBudget
           /\ IsPrefix(short.trace, full.trace)
           /\ Decision = evaluate(evRequest, evContext, evPolicy, options)
           /\ isAllowed(evRequest, evContext, evPolicy, options)
                 = Decision.allow

\* a short-circuit evaluation cut before a rule that would have failed too
C11_Witness ==
    /\ Evaluated /\ ~evFullTrace /\ ~Decision.allow
    /\ \E i \in (Len(Decision.trace) + 1)..Len(ALL_RULES) :
          ~ApplyRule(ALL_RULES[i], evPolicy, evRequest, evContext).passed

\* ------------------------------------------- claims on x402Fetch calls
SameInputs(a, b) ==
    /\ a.endpoint = b.endpoint
    /\ a.priceUsd = b.priceUsd
    /\ a.decision.currentDailySpend = b.decision.currentDailySpend
    /\ a.decision.currentWeeklySpend = b.decision.currentWeeklySpend

Blocked(c) ==
    /\ calls[c].decision # <<>>
    /\ ~calls[c].decision[1].allow \/ ~cOpts.autoPay

\* C13: a call whose decision denies, or whose autoPay is off, ends with the
\* policy error that carries the decision and the challenge, and pays
\* nothing: nothing is signed, no proof is built, no paid request is sent
\* and no payment is recorded for it.
C13_BlockedCallNeverPays ==
    \A c \in CallIds :
        Blocked(c) =>
            /\ calls[c].pc \in {"decided", "done"}
            /\ calls[c].pc = "done" => calls[c].outcome = "policy_error"
            /\ calls[c].headers # <<>>
            /\ calls[c].signed = <<>>
            /\ calls[c].proof = <<>>
            /\ calls[c].paidRequests = <<>>
            /\ PaymentOf(c) = {}

\* a call the policy allowed, ended by the policy error for want of autoPay
C13_Witness ==
    \E c \in CallIds :
        /\ calls[c].pc = "done" /\ calls[c].outcome = "policy_error"
        /\ calls[c].decision[1].allow /\ ~cOpts.autoPay

\* C14: a call has exactly one decision in the ledger from its evaluation
\* on, that is before anything is signed, paid or blocked, and it is the
\* decision of the call with the challenge's USD price; a call without a
\* decoded challenge has none.
C14_OneDecisionPerChallenge ==
    \A c \in CallIds :
        LET n == Cardinality(DecisionRecordOf(c))
        IN /\ n = IF calls[c].headers # <<>> /\ calls[c].pc # "evaluate"
                  THEN 1 ELSE 0
           /\ (\/ calls[c].signed # <<>>
               \/ calls[c].paidRequests # <<>>
               \/ calls[c].outcome = "policy_error") => n = 1
           /\ \A i \in DecisionRecordOf(c) :
                 /\ ledgerDecisions[i].decision = calls[c].decision[1]
                 /\ ledgerDecisions[i].priceUsd = calls[c].headers[1].priceUsd

\* one call blocked with its denial recorded, one call without a decodable
\* challenge and without a decision
C14_Witness ==
    \E c1, c2 \in CallIds :
        /\ calls[c1].outcome = "policy_error" /\ ~calls[c1].decision[1].allow
        /\ Cardinality(DecisionRecordOf(c1)) = 1
        /\ calls[c2].pc = "done" /\ calls[c2].headers = <<>>
        /\ DecisionRecordOf(c2) = {}

RECURSIVE SumAmounts(_)
SumAmounts(payments) ==
    IF payments = <<>> THEN 0
    ELSE payments[1].amountUsd + SumAmounts(Tail(payments))

PaidOk(c) ==
    /\ calls[c].pc = "done" /\ calls[c].outcome = "response"
    /\ calls[c].status = 200 /\ calls[c].x402Paid

\* C15: every ok paid response has its payment in the ledger once, with the
\* challenge's USD price, and is returned paid with proof and decision; the
\* daily and weekly accumulators are the sum of the recorded prices and the
\* daily call count is the number of payments.
C15_OkPaidResponseRecorded ==
    /\ getSpendContext[1].dailySpentUsd = SumAmounts(ledgerPayments)
    /\ getSpendContext[1].weeklySpentUsd = SumAmounts(ledgerPayments)
    /\ getSpendContext[1].dailyCallCount = Len(ledgerPayments)
    /\ \A c \in CallIds :
          PaidOk(c) =>
              /\ Cardinality(PaymentOf(c)) = 1
              /\ \A i \in PaymentOf(c) :
                    /\ ledgerPayments[i].amountUsd = calls[c].headers[1].priceUsd
                    /\ ledgerPayments[i].endpoint = calls[c].endpoint
                    /\ ledgerPayments[i].nonce = calls[c].headers[1].nonce
              /\ calls[c].proof # <<>>
              /\ calls[c].decision # <<>>

\* a second ok paid response of price 1 counted in the ledger
C15_Witness ==
    \E c \in CallIds :
        /\ PaidOk(c) /\ calls[c].headers[1].priceUsd = 1
        /\ ledgerCtx[1].dailyCallCount = 2
        /\ ledgerCtx[1].weeklySpentUsd >= 1

Arrives(r) == sReq[r].pc = "idle" /\ sReq'[r].pc # "idle"
\* of the paths requested, /health has no exact entry, no matching wildcard
\* and no default price; the paths under /tool/ are priced
UnpricedPaths == {"/health"}
PricedPaths == {"/tool/extract", "/tool/quote"}
HandlerCallsOf(r) == {i \in DOMAIN handlerCalls : handlerCalls[i].req = r}

\* C17: a request to an unpriced path, with or without a proof header, is
\* answered by the handler called with paid:false; no nonce is minted, no
\* challenge is issued and the nonce store and the receipts are unchanged.
C17_UnpricedPassesThrough ==
    [][\A r \in SellerRequestIds :
          (Arrives(r) /\ sReq'[r].endpoint \in UnpricedPaths) =>
              /\ sReq'[r].pc = "done"
              /\ sReq'[r].status \in {200, 500}
              /\ sReq'[r].error = ""
              /\ sReq'[r].nonce = 0
              /\ handlerCalls' = Append(handlerCalls,
                     [req |-> r, paid |-> FALSE, nonce |-> 0])
              /\ UNCHANGED <<kv, mintCount, pendingReceipts, receipts>>]_vars

\* an unpriced request that carried a proof and went to the handler unpaid
C17_Witness ==
    \E r \in SellerRequestIds :
        /\ sReq[r].endpoint \in UnpricedPaths /\ sReq[r].pc = "done"
        /\ sReq[r].header # <<>>
        /\ \E i \in HandlerCallsOf(r) : ~handlerCalls[i].paid

\* C18: a request to a priced path without a proof header is answered 402
\* with a nonce no earlier challenge carried and the expiry now + 300 s;
\* the handler is not called and the nonce store and the receipts are
\* unchanged.
C18_ChallengeWithoutProof ==
    [][\A r \in SellerRequestIds :
          (/\ Arrives(r)
           /\ sReq'[r].endpoint \in PricedPaths
           /\ sReq'[r].header = <<>>) =>
              /\ sReq'[r].pc = "done"
              /\ sReq'[r].status = 402
              /\ sReq'[r].error = "Payment Required"
              /\ sReq'[r].nonce > mintCount
              /\ mintCount' = sReq'[r].nonce
              /\ \A q \in SellerRequestIds \ {r} :
                    sReq[q].nonce # sReq'[r].nonce
              /\ sReq'[r].expiry = now + ExpiryDuration
              /\ UNCHANGED <<handlerCalls, kv, pendingReceipts, receipts>>]_vars

\* the second challenge of a run, with the second nonce
C18_Witness ==
    \E r \in SellerRequestIds :
        /\ sReq[r].pc = "done" /\ sReq[r].header = <<>>
        /\ sReq[r].status = 402 /\ sReq[r].nonce = 2
        /\ HandlerCallsOf(r) = {}

RequiredAmount(endpoint) ==
    getPriceForEndpoint(endpoint, PaywallConfig)[1].priceToken

\* C19: the handler is called with paid:true only for a proof that was not
\* expired when it was verified (verification time <= expiry), whose asset
\* (the token address, case aside) and chain id are those of the endpoint's
\* pricing and whose amount is at least the required amount.
C19_PaidOnlyForVerifiedProof ==
    \A i \in DOMAIN handlerCalls :
        handlerCalls[i].paid =>
            LET r == handlerCalls[i].req
                proof == sReq[r].payment[1]
            IN /\ IsDefined(proof.expiry)
               /\ sReq[r].verifiedAt <= proof.expiry[1]
               /\ IsDefined(proof.token)
               /\ proof.token[1].address = PaywallConfig.defaultToken.address
               /\ proof.chainId = PaywallConfig.defaultChainId
               /\ IsDefined(proof.amount)
               /\ proof.amount[1] >= RequiredAmount(sReq[r].endpoint)

\* the proof names an asset and an amount and fails one of the checks of
\* the claim at time t
Defective(proof, endpoint, t) ==
    /\ IsDefined(proof.token) /\ IsDefined(proof.amount)
    /\ \/ IsDefined(proof.expiry) /\ proof.expiry[1] < t
       \/ proof.token[1].address # PaywallConfig.defaultToken.address
       \/ proof.chainId # PaywallConfig.defaultChainId
       \/ proof.amount[1] < RequiredAmount(endpoint)
       \/ /\ sellerOpts.verifySignatures
          /\ proof.signature.length < 130 \/ ~proof.signature.has0x

\* C20: a request to a priced path with a well-formed proof that is expired,
\* of another asset or chain, too small or (signature checks on) badly
\* signed is answered 402 with one of the rejection reasons and a challenge
\* whose nonce is newly minted and is not the proof's; the handler is not
\* called, the nonce store and the receipts are unchanged.
C20_FailedVerificationRechallenges ==
    [][\A r \in SellerRequestIds :
          (/\ Arrives(r)
           /\ sReq'[r].endpoint \in PricedPaths
           /\ sReq'[r].header # <<>>
           /\ parsePaymentHeader(sReq'[r].header[1]) # <<>>
           /\ Defective(parsePaymentHeader(sReq'[r].header[1])[1],
                        sReq'[r].endpoint, now)) =>
              /\ sReq'[r].pc = "done"
              /\ sReq'[r].status = 402
              /\ sReq'[r].error \in VerificationReasons
              /\ sReq'[r].nonce > mintCount
              /\ mintCount' = sReq'[r].nonce
              /\ sReq'[r].nonce # sReq'[r].payment[1].nonce
              /\ sReq'[r].expiry = now + ExpiryDuration
              /\ UNCHANGED <<handlerCalls, kv, pendingReceipts, receipts>>]_vars

\* an expired proof bearing a nonce of an earlier challenge, rejected with
\* a new nonce and its own nonce unspent
C20_Witness ==
    \E r \in SellerRequestIds :
        /\ sReq[r].pc = "done" /\ sReq[r].status = 402
        /\ sReq[r].error = "Payment has expired"
        /\ sReq[r].payment[1].nonce >= 1
        /\ sReq[r].nonce > sReq[r].payment[1].nonce
        /\ kv[sReq[r].payment[1].nonce] = <<>>
        /\ HandlerCallsOf(r) = {}

\* the proof header cannot be decoded or lacks a signature, payer or nonce
Malformed(header) ==
    \/ ~header.decodable
    \/ header.sig = Undefined
    \/ header.payer = Undefined
    \/ header.nonce = Undefined

\* C21: a request to a priced path whose proof header cannot be decoded, or
\* lacks a signature, payer or nonce, is answered 400 at once: no proof is
\* verified, the handler is not called and the nonce store and the receipts
\* are unchanged.
C21_MalformedProofIs400 ==
    [][\A r \in SellerRequestIds :
          (/\ Arrives(r)
           /\ sReq'[r].endpoint \in PricedPaths
           /\ sReq'[r].header # <<>>
           /\ Malformed(sReq'[r].header[1])) =>
              /\ sReq'[r].pc = "done"
              /\ sReq'[r].status = 400
              /\ sReq'[r].error = "Invalid payment header format"
              /\ sReq'[r].payment = <<>>
              /\ UNCHANGED <<handlerCalls, kv, pendingReceipts, receipts>>]_vars

\* a proof header without nonce and an undecodable one, both answered 400
\* with nothing verified and the handler not called
C21_Witness ==
    \E r1, r2 \in SellerRequestIds :
        /\ sReq[r1].pc = "done" /\ sReq[r1].status = 400
        /\ sReq[r1].header[1].nonce = Undefined
        /\ sReq[r2].pc = "done" /\ sReq[r2].status = 400
        /\ ~sReq[r2].header[1].decodable
        /\ sReq[r1].payment = <<>> /\ sReq[r2].payment = <<>>
        /\ handlerCalls = <<>>

\* the proof of request r passed verifyPayment when it was verified
Verified(r) ==
    /\ sReq[r].payment # <<>>
    /\ verifyPayment(sReq[r].payment[1],
                     getPriceForEndpoint(sReq[r].endpoint, PaywallConfig)[1],
                     sellerOpts.verifySignatures, sReq[r].verifiedAt).valid
PaidCallsOf(r) == {i \in HandlerCallsOf(r) : handlerCalls[i].paid}
StoredOf(r) == {i \in DOMAIN receipts : receipts[i].id = r}
PendingOf(r) == {rc \in pendingReceipts : rc.id = r}

\* the outcomes of a request
Passthrough(r) ==
    /\ sReq[r].endpoint \in UnpricedPaths
    /\ Cardinality(HandlerCallsOf(r)) = 1 /\ PaidCallsOf(r) = {}
    /\ sReq[r].nonce = 0 /\ sReq[r].payment = <<>>
ChallengeIssued(r) ==
    /\ sReq[r].endpoint \in PricedPaths /\ sReq[r].header = <<>>
    /\ sReq[r].status = 402 /\ HandlerCallsOf(r) = {}
Rejected(r) ==
    /\ sReq[r].endpoint \in PricedPaths /\ sReq[r].header # <<>>
    /\ HandlerCallsOf(r) = {}
    /\ \/ sReq[r].payment = <<>> /\ sReq[r].status = 400
       \/ /\ sReq[r].payment # <<>> /\ ~Verified(r)
          /\ sReq[r].status = 402 /\ sReq[r].error \in VerificationReasons
       \/ /\ Verified(r) /\ sReq[r].status = 400
          /\ sReq[r].error = "Payment nonce already used"
PaidChain(r) ==
    /\ sReq[r].endpoint \in PricedPaths /\ Verified(r)
    /\ Cardinality(HandlerCallsOf(r)) = 1
    /\ PaidCallsOf(r) = HandlerCallsOf(r)
OutcomesOf(r) ==
    {k \in 1..4 : <<Passthrough(r), ChallengeIssued(r), Rejected(r),
                    PaidChain(r)>>[k]}

\* C22: a request that has ended has exactly one of the outcomes passthrough,
\* challenge issued, rejected, or verified and handed to the handler; before
\* its end a request with a proof is verified first and the handler is
\* invoked after that; a receipt is dispatched or stored only for an ended
\* request whose proof was verified and whose handler was invoked, and at
\* most one per request.
C22_RequestStateMachine ==
    \A r \in SellerRequestIds :
        /\ sReq[r].pc = "done" => Cardinality(OutcomesOf(r)) = 1
        /\ sReq[r].pc = "idle" => HandlerCallsOf(r) = {}
        /\ sReq[r].pc \in {"kv_get", "kv_put", "handler"} =>
              Verified(r) /\ HandlerCallsOf(r) = {}
        /\ sReq[r].pc = "handler_running" => PaidChain(r)
        /\ Cardinality(StoredOf(r)) + Cardinality(PendingOf(r)) <= 1
        /\ (StoredOf(r) # {} \/ PendingOf(r) # {}) =>
              sReq[r].pc = "done" /\ PaidChain(r)

\* the handler of request r was called with paid:true and returned a
\* response
HandlerReturned(r) ==
    /\ sReq[r].pc = "done" /\ PaidCallsOf(r) # {}
    /\ sReq[r].handlerStatus \in {200, 500}

\* C23: with a receipt store configured, every ended request whose proof was
\* accepted and whose handler returned a response has had its receipt
\* handed to waitUntil: the receipt is registered or already stored.
C23_ReceiptDispatchedForPaidResponse ==
    \A r \in SellerRequestIds :
        (sellerOpts.db /\ HandlerReturned(r)) =>
            (PendingOf(r) # {} \/ StoredOf(r) # {})

\* C24: on the paid path a response of the handler is returned with the
\* handler's status and body and carries the receipt-id header and the
\* settlement confirmation of the receipt.
C24_PaidResponseIsHandlersResponse ==
    \A r \in SellerRequestIds :
        HandlerReturned(r) =>
            /\ sReq[r].status = sReq[r].handlerStatus
            /\ sReq[r].body = sReq[r].handlerBody
            /\ sReq[r].receiptIdHeader = Some(sReq[r].receiptId)
            /\ sReq[r].paymentResponse # <<>>
            /\ sReq[r].paymentResponse[1].success
            /\ sReq[r].paymentResponse[1].receiptId = sReq[r].receiptId

\* -------------------------------------- claims on the buyer's outcomes
\* the initial response of call c arrives in this step and is not a 402
InitialNon402(c) ==
    /\ calls[c].pc = "fetching"
    /\ calls'[c].pc = "done" /\ calls'[c].outcome = "response"

\* C25: an initial response that is not a 402 ends the call at once: it is
\* returned with its status and x402Paid false; the ledger is not read or
\* written, no decision is recorded, nothing is signed and no paid request
\* is sent.
C25_Non402ReturnedUnpaid ==
    [][\A c \in CallIds :
          InitialNon402(c) =>
              /\ calls'[c].status \in {200, 500}
              /\ ~calls'[c].x402Paid
              /\ calls'[c].challenge = <<>> /\ calls'[c].headers = <<>>
              /\ calls'[c].decision = <<>>
              /\ calls'[c].signed = <<>> /\ calls'[c].proof = <<>>
              /\ calls'[c].paidRequests = <<>>
              /\ UNCHANGED <<ledgerCtx, ledgerPayments, ledgerDecisions>>]_vars

\* a 500 returned unpaid while the ledger has never been read
C25_Witness ==
    \E c \in CallIds :
        /\ calls[c].pc = "done" /\ calls[c].outcome = "response"
        /\ calls[c].status = 500 /\ ~calls[c].x402Paid
        /\ ledgerCtx = <<>> /\ ledgerDecisions = <<>>

\* a 402 response carries no complete challenge: neither a decodable
\* PAYMENT-REQUIRED object with network, amount, asset and payee nor the
\* legacy headers with all their required fields
WellFormedOfficial(pr) ==
    /\ pr.decodable /\ pr.network # <<>>
    /\ pr.maxAmountRequired # <<>> /\ pr.asset # <<>> /\ pr.payTo # <<>>
WellFormedLegacy(lg) ==
    /\ lg.price # <<>> /\ lg.token # <<>> /\ lg.seller # <<>>
    /\ lg.chainId # <<>> \/ lg.network # <<>>
    /\ lg.expiry # <<>> /\ lg.nonce # <<>>
MalformedChallenge(response) ==
    /\ ~(response.paymentRequired # <<>>
         /\ WellFormedOfficial(response.paymentRequired[1]))
    /\ ~(response.legacy # <<>> /\ WellFormedLegacy(response.legacy[1]))

\* C26: a call whose 402 carries no challenge or a malformed one ends with the
\* payment error at once: no decision is evaluated or recorded for it,
\* nothing is signed, no paid request is sent and no payment recorded.
C26_MalformedChallengeIsFatal ==
    \A c \in CallIds :
        (calls[c].challenge # <<>>
         /\ MalformedChallenge(calls[c].challenge[1])) =>
            /\ calls[c].pc = "done" /\ calls[c].outcome = "payment_error"
            /\ calls[c].decision = <<>> /\ DecisionRecordOf(c) = {}
            /\ calls[c].signed = <<>> /\ calls[c].paidRequests = <<>>
            /\ PaymentOf(c) = {}

\* the wallet of call c fails in this step: the call was waiting for the
\* signature, moves, and has no proof
SigningFails(c) ==
    /\ calls[c].pc = "signing"
    /\ calls'[c] # calls[c]
    /\ calls'[c].proof = <<>>

\* C27: when signPayment or getAddress rejects, the call ends at once with
\* the payment error: nothing is retried, no paid request is sent, no
\* payment is recorded and the spend totals are unchanged; the decision
\* recorded before stays.
C27_SigningFailureIsFatal ==
    [][\A c \in CallIds :
          SigningFails(c) =>
              /\ calls'[c].pc = "done"
              /\ calls'[c].outcome = "payment_error"
              /\ calls'[c].retryCount = 0
              /\ calls'[c].paidRequests = <<>>
              /\ UNCHANGED <<ledgerCtx, ledgerPayments, ledgerDecisions>>
              /\ PaymentOf(c) = {}
              /\ Cardinality(DecisionRecordOf(c)) = 1]_vars

\* a call allowed by the policy and ended by the wallet's failure, with its
\* decision in the ledger and no spend
C27_Witness ==
    \E c \in CallIds :
        /\ calls[c].pc = "done" /\ calls[c].outcome = "payment_error"
        /\ calls[c].signed # <<>> /\ calls[c].proof = <<>>
        /\ calls[c].decision[1].allow
        /\ DecisionRecordOf(c) # {}
        /\ ledgerPayments = <<>> /\ ledgerCtx[1].dailySpentUsd = 0

\* C28: the paid request is sent at most maxRetries times; each transport
\* failure takes one unit of the budget and the next attempt follows while
\* budget is left; any HTTP response ends the loop at its attempt, so that
\* no paid request is in flight, and no payment error raised, after a paid
\* request was answered (status 0 is: not answered); with the budget used
\* up the call ends with the payment error, never the policy error; the
\* requests of a call number at most 1 + maxRetries.
C28_RetryBudget ==
    \A c \in CallIds :
        LET call == calls[c]
            attempts == Len(call.paidRequests)
        IN /\ call.retryCount <= cOpts.maxRetries
           /\ attempts <= cOpts.maxRetries
           /\ 1 + attempts <= 1 + cOpts.maxRetries
           /\ call.pc \in {"paying", "recording"} =>
                 attempts = call.retryCount + 1
           /\ (call.pc = "done" /\ call.outcome = "response" /\ call.x402Paid)
                 => attempts = call.retryCount + 1
           /\ (call.pc = "done" /\ call.proof # <<>>
               /\ call.outcome # "response") =>
                 /\ call.outcome = "payment_error"
                 /\ call.retryCount = cOpts.maxRetries
                 /\ attempts = cOpts.maxRetries
           /\ call.outcome = "policy_error" =>
                 call.proof = <<>> /\ attempts = 0
           /\ call.pc = "paying" => call.status = 0
           /\ (call.pc = "done" /\ call.outcome = "payment_error") =>
                 call.status = 0

\* the spend totals of the caller, zero before the entry exists
Totals == getSpendContext[1]

\* C29: the spend totals change only in the step that records the payment
\* of a call whose paid request was answered ok; a call that ended in any
\* other way (response that is not a 402, undecodable challenge, policy
\* error, failed signing, budget used up, paid response that is not ok) has
\* no payment in the ledger; evaluating and recording a decision leave the
\* totals alone.
C29_TotalsChangeOnlyByConfirmedPayment ==
    [][/\ Totals' # Totals =>
             \E c \in CallIds :
                 /\ calls[c].pc = "recording" /\ calls[c].status = 200
                 /\ calls'[c].pc = "done" /\ calls'[c].outcome = "response"
                 /\ Len(ledgerPayments') = Len(ledgerPayments) + 1
       /\ \A c \in CallIds :
             (calls'[c].pc = "done"
              /\ ~(calls'[c].outcome = "response" /\ calls'[c].x402Paid
                   /\ calls'[c].status = 200)) =>
                 {i \in DOMAIN ledgerPayments' :
                     ledgerPayments'[i].call = c} = {}
       /\ ledgerDecisions' # ledgerDecisions => Totals' = Totals]_vars

\* a paid request answered 402 after an earlier call was paid and recorded:
\* the totals are those of the one payment
C29_Witness ==
    \E c1, c2 \in CallIds :
        /\ PaidOk(c1) /\ calls[c1].headers[1].priceUsd = 1
        /\ calls[c2].pc = "done" /\ calls[c2].x402Paid
        /\ calls[c2].status = 402 /\ calls[c2].headers[1].priceUsd = 1
        /\ Totals.dailySpentUsd = 1 /\ Totals.dailyCallCount = 1

\* ------------------------------------------ claims on the wire encodings
\* C30: the proof the seller decodes from the header createPaymentHeader
\* built has the signature, payer, nonce, expiry, amount, asset and chain
\* id of the proof encoded; the challenge the buyer decodes from the
\* response create402Response built has the required amount, USD price,
\* asset, payee, chain id, expiry and nonce of the challenge encoded.
C30_WireRoundTrip ==
    /\ codecOut.proof # <<>> =>
          LET proof == codecIn.proof[1]
              parsed == codecOut.proof[1]
          IN /\ parsed # <<>>
             /\ parsed[1].signature = proof.signature
             /\ parsed[1].payer = proof.payer
             /\ parsed[1].nonce = proof.nonce
             /\ parsed[1].expiry = Some(proof.expiry)
             /\ parsed[1].amount = proof.amount
             /\ parsed[1].token = proof.token
             /\ parsed[1].chainId = proof.chainId
    /\ (codecOut.challenge # <<>> /\ codecDelivered = codecWire.challenge) =>
          LET ch == codecIn.challenge[1]
              headers == codecOut.challenge[1]
          IN /\ headers # <<>>
             /\ headers[1].price = Some(ch.pricing.priceToken)
             /\ headers[1].priceUsd = ch.pricing.priceUsd
             /\ headers[1].token = Some(ch.pricing.token)
             /\ headers[1].seller = Some(PaywallConfig.sellerAddress)
             /\ headers[1].chainId = ch.pricing.chainId
             /\ headers[1].expiry = ch.expiry
             /\ headers[1].nonce = ch.nonce

\* a proof in upper-case token form on chain 1 and a challenge of price 1 on
\* chain 1, both encoded and decoded
C30_Witness ==
    /\ codecOut.proof # <<>> /\ codecOut.challenge # <<>>
    /\ codecDelivered = codecWire.challenge
    /\ codecIn.proof[1].token[1].upperCase /\ codecIn.proof[1].chainId = 1
    /\ codecIn.proof[1].nonce = 2
    /\ codecIn.challenge[1].pricing.priceUsd = 1
    /\ codecIn.challenge[1].pricing.chainId = 1
    /\ codecOut.challenge[1][1].chainId = 1

\* the six fields of a decoded challenge the caller pays by
SixFields(h) ==
    <<h.price, h.token, h.seller, h.chainId, h.expiry, h.nonce>>

\* the challenge a PAYMENT-REQUIRED object states, and the challenge the
\* discrete headers state
StatedByOfficial(pr) ==
    <<pr.maxAmountRequired, pr.asset, pr.payTo,
      IF pr.network # <<>> THEN caip2ToChainId(pr.network[1]) ELSE 0,
      pr.extra[1].expiry[1], pr.extra[1].nonce[1]>>

StatedByLegacy(lg) ==
    <<lg.price, lg.token, lg.seller, lg.chainId[1].reference,
      lg.expiry[1], lg.nonce[1]>>

RECURSIVE GlobTest(_, _)
GlobTest(pat, path) ==
    IF pat = <<>> THEN path = <<>>
    ELSE IF Len(pat) >= 2 /\ pat[1] = "*" /\ pat[2] = "*"
         THEN \/ GlobTest(SubSeq(pat, 3, Len(pat)), path)
              \/ path # <<>> /\ GlobTest(pat, Tail(path))
    ELSE IF pat[1] = "*"
         THEN \/ GlobTest(Tail(pat), path)
              \/ path # <<>> /\ path[1] # "/" /\ GlobTest(pat, Tail(path))
    ELSE path # <<>> /\ path[1] = pat[1] /\ GlobTest(Tail(pat), Tail(path))

IsWildcard(pattern) == \E i \in DOMAIN Chars(pattern) : Chars(pattern)[i] = "*"

\* C32: a resolved path has the price of its exact entry when the table has
\* one; otherwise the price of a wildcard pattern that matches it, * within
\* one segment and ** over the remaining segments; otherwise the default
\* price; otherwise none (null).
C32_PricePrecedence ==
    priceResult.resolved =>
       LET table == priceConfig.pricing
           exact == {i \in DOMAIN table : table[i].pattern = priceEndpoint}
           wild == {i \in DOMAIN table :
                       /\ IsWildcard(table[i].pattern)
                       /\ GlobTest(Chars(table[i].pattern),
                                   Chars(priceEndpoint))}
           priced(u) == Some(normalizePricing(u, priceConfig))
       IN IF exact # {}
          THEN \E i \in exact :
                  priceResult.pricing = priced(table[i].priceUsd)
          ELSE IF wild # {}
          THEN \E i \in wild :
                  priceResult.pricing = priced(table[i].priceUsd)
          ELSE IF priceConfig.defaultPriceUsd # Undefined
          THEN priceResult.pricing = priced(priceConfig.defaultPriceUsd[1])
          ELSE priceResult.pricing = <<>>

\* ------------------------------------------- claims on the worked example
PricesOf(log) == [i \in DOMAIN log |-> log[i].priceUsd]

\* C33: under dailyCapUsd 1.00 and perCallCapUsd 0.10 with empty lists, from
\* a context that spent nothing: a first request of 0.03 is allowed with
\* remainingDailyBudget 0.97; 0.05 and then 0.02 against the accumulated
\* context are both allowed and leave dailySpentUsd at 0.10; a request of
\* 0.25 after them is denied by per_call_cap and leaves the spend at 0.10.
C33_WorkedExample ==
    LET n == Len(exLog)
    IN /\ (n >= 1 /\ exLog[1].priceUsd = 3 * Cent) =>
             /\ exLog[1].decision.allow
             /\ exLog[1].decision.remainingDailyBudget = 97 * Cent
       /\ (n >= 3 /\ PricesOf(SubSeq(exLog, 1, 3))
                        = <<3 * Cent, 5 * Cent, 2 * Cent>>) =>
             /\ exLog[2].decision.allow
             /\ exLog[3].decision.allow
             /\ exLog[3].context.dailySpentUsd = 10 * Cent
       /\ (n = 4 /\ PricesOf(exLog)
                       = <<3 * Cent, 5 * Cent, 2 * Cent, 25 * Cent>>) =>
             /\ ~exLog[4].decision.allow
             /\ exLog[4].decision.ruleId = "per_call_cap"
             /\ exLog[4].context.dailySpentUsd = 10 * Cent
             /\ exContext.dailySpentUsd = 10 * Cent

\* the four requests of the example were evaluated in its order
C33_Witness ==
    /\ PricesOf(exLog) = <<3 * Cent, 5 * Cent, 2 * Cent, 25 * Cent>>
    /\ exLog[4].decision.ruleId = "per_call_cap"
    /\ exContext.dailyCallCount = 3

\* --------------------------------------- claims on the evaluator's limits
\* the least of a non-empty set of integers
Least(S) == CHOOSE x \in S : \A y \in S : x <= y

RemainingDaily == evPolicy.dailyCapUsd - evContext.dailySpentUsd
RemainingWeekly == evPolicy.weeklyCapUsd[1] - evContext.weeklySpentUsd

\* C34: getMaxAllowedPrice is the least of the effective per-call cap, the
\* remaining daily budget and, when the policy has a weekly cap, the
\* remaining weekly budget, and 0 when that is negative; getRemainingBudget
\* is the daily remainder and the weekly remainder, neither below 0, the
\* weekly one undefined when the policy has no weekly cap.
C34_TightestLimit ==
    /\ evMaxPrice # Undefined =>
          evMaxPrice[1] =
             Max(0, Least({EffectivePerCallCap(evPolicy, evRequest.endpoint),
                           RemainingDaily}
                          \cup (IF IsDefined(evPolicy.weeklyCapUsd)
                                THEN {RemainingWeekly} ELSE {})))
    /\ evBudget # Undefined =>
          /\ evBudget[1].daily = Max(0, RemainingDaily)
          /\ evBudget[1].weekly =
                IF IsDefined(evPolicy.weeklyCapUsd)
                THEN Some(Max(0, RemainingWeekly))
                ELSE Undefined

\* the request passes the four list rules
PassesListRules ==
    /\ ~ToolDenied
    /\ ~DomainDenied
    /\ evPolicy.allowTools # {} => ToolAllowed
    /\ evPolicy.allowDomains # {} => DomainAllowed

\* C40: for an enabled policy and a request that passes the four list
\* rules, evaluatePolicy allows the request's price exactly when it is
\* between 0 and getMaxAllowedPrice of the same endpoint, policy and
\* context, whatever the context has spent already.
C40_MaxPriceAgreesWithEvaluation ==
    (/\ Evaluated
     /\ evMaxPrice # Undefined
     /\ evPolicy.enabled
     /\ PassesListRules) =>
        (Decision.allow <=>
            (0 <= evRequest.priceUsd /\ evRequest.priceUsd <= evMaxPrice[1]))

\* ------------------------------------------- claims on the nonce store
\* the nonce store holds an entry for the nonce, expired or not
Marked(n) == kv[n] # <<>>
RejectedAsReplay(r) ==
    sReq[r].pc = "done" /\ sReq[r].error = "Payment nonce already used"

\* C35: with replay checking on, a request is handed to the protected
\* handler with paid:true only after its proof's nonce was marked in the
\* nonce store, and a request rejected as a replay is never handed to the
\* handler.
C35_NonceMarkedBeforeHandler ==
    ReplayOn =>
       /\ \A i \in DOMAIN handlerCalls :
             handlerCalls[i].paid => Marked(handlerCalls[i].nonce)
       /\ \A r \in SellerRequestIds :
             /\ sReq[r].pc \in {"handler", "handler_running"} =>
                   Marked(sReq[r].payment[1].nonce)
             /\ RejectedAsReplay(r) => HandlerCallsOf(r) = {}

\* one request was handed to the handler and a later one with the same
\* nonce was rejected as a replay
C35_Witness ==
    /\ ReplayOn
    /\ \E r1, r2 \in SellerRequestIds :
          /\ Accepted(r1) /\ RejectedAsReplay(r2)
          /\ sReq[r2].payment[1].nonce = sReq[r1].payment[1].nonce

\* the seller sent request r2 a challenge (a 402 response) with nonce n for
\* the endpoint
Challenged(r2, n, endpoint) ==
    /\ sReq[r2].pc = "done" /\ sReq[r2].status = 402
    /\ sReq[r2].nonce = n /\ sReq[r2].endpoint = endpoint

\* C36: every proof the handler was invoked for with paid:true bears a
\* nonce the seller had minted in a challenge for that endpoint, sent to an
\* earlier request, and no nonce is accepted more than once.
C36_NonceBindsChallengeToOneProof ==
    /\ \A i \in DOMAIN handlerCalls :
          handlerCalls[i].paid =>
             \E r2 \in SellerRequestIds :
                /\ r2 < handlerCalls[i].req
                /\ Challenged(r2, handlerCalls[i].nonce,
                              sReq[handlerCalls[i].req].endpoint)
    /\ \A n \in 0..MaxSellerRequests : PaidCalls(n) <= 1

\* ------------------------------------------ claims on the paid annotation
\* C37: a call of x402Fetch returns a response annotated x402Paid only when
\* a payment of that call is in the ledger; a paid request answered with a
\* status that is not ok (402, 400) is not returned as paid.
C37_PaidOnlyIfRecorded ==
    \A c \in CallIds :
        (calls[c].pc = "done" /\ calls[c].x402Paid) =>
            /\ PaymentOf(c) # {}
            /\ calls[c].status = 200

\* the requests of the seller that carried a paid request of call c and
\* whose handler, invoked with paid:true, returned its result
FulfilledFor(c) ==
    {r \in SellerRequestIds :
        /\ served[r] # <<>> /\ served[r][1].call = c
        /\ \E i \in DOMAIN handlerCalls :
              handlerCalls[i].req = r /\ handlerCalls[i].paid
        /\ sReq[r].handlerStatus = 200}

RECURSIVE PriceOfRequests(_)
PriceOfRequests(S) ==
    IF S = {} THEN 0
    ELSE LET r == CHOOSE q \in S : TRUE
         IN getPriceForEndpoint(sReq[r].endpoint, PaywallConfig)[1].priceUsd
            + PriceOfRequests(S \ {r})

RECURSIVE RecordedFor(_, _)
RecordedFor(c, i) ==
    IF i = 0 THEN 0
    ELSE (IF ledgerPayments[i].call = c THEN ledgerPayments[i].amountUsd ELSE 0)
         + RecordedFor(c, i - 1)

\* C38: with the buyer's calls served by a seller that checks for replays,
\* whatever the retry limit and whichever fetches or ledger writes fail,
\* once a call has ended the spend the ledger recorded for it is at least
\* the total price of its paid requests that the seller's handler fulfilled
C38_NoFulfilmentUnrecorded ==
    \A c \in CallIds :
        calls[c].pc = "done" =>
            RecordedFor(c, Len(ledgerPayments))
                >= PriceOfRequests(FulfilledFor(c))

\* the context the storage holds for a caller (a fresh one when it holds
\* none), and the caller's recorded payments
StoredContext(k) ==
    IF stContexts[k] = <<>> THEN createSpendContext ELSE stContexts[k][1]

PaymentsOfCaller(k, log) == SelectSeq(log, LAMBDA p : p.callerId = k)

RECURSIVE SumAmountUsd(_)
SumAmountUsd(log) ==
    IF log = <<>> THEN 0 ELSE Head(log).amountUsd + SumAmountUsd(Tail(log))

\* C39: whatever getSpendContext, recordPayment and recordDecision calls
\* were made, for every caller the daily and the weekly accumulator both
\* equal the sum of the amounts of the caller's recorded payments and the
\* call count equals their number; a step that records a payment of one
\* caller leaves the context of every other caller as it was; and the
\* payments and decisions logs only grow
C39_StorageAccounting ==
    /\ [](\A k \in StorageCallers :
            /\ StoredContext(k).dailySpentUsd
                   = SumAmountUsd(PaymentsOfCaller(k, stPayments))
            /\ StoredContext(k).weeklySpentUsd
                   = SumAmountUsd(PaymentsOfCaller(k, stPayments))
            /\ StoredContext(k).dailyCallCount
                   = Len(PaymentsOfCaller(k, stPayments)))
    /\ [][/\ IsPrefix(stPayments, stPayments')
          /\ IsPrefix(stDecisions, stDecisions')
          /\ \A j, k \in StorageCallers :
                (/\ j # k
                 /\ \/ Len(PaymentsOfCaller(j, stPayments'))
                          > Len(PaymentsOfCaller(j, stPayments))
                    \/ Len(PaymentsOfCaller(j, stPending'))
                          > Len(PaymentsOfCaller(j, stPending)))
                    => stContexts'[k] = stContexts[k]]_vars

\* both callers have recorded payments, one of them two, and decisions
\* were recorded
C39_Witness ==
    /\ Len(PaymentsOfCaller("agent-a", stPayments)) = 2
    /\ Len(PaymentsOfCaller("agent-b", stPayments)) = 1
    /\ StoredContext("agent-a").dailySpentUsd = 3
    /\ StoredContext("agent-b").dailySpentUsd = 2
    /\ stDecisions # <<>>
====
